---------------------------- MODULE Spec2Model ----------------------------
(***************************************************************************)
(* Model of the stock analyzer (src/api/analyzer.py) and of the HTTP       *)
(* handlers that drive it (src/api/main.py).                               *)
(*                                                                         *)
(* Numbers.  The scores, the weights and the total score are modelled as   *)
(* IEEE-754 binary64 values with round-to-nearest-even (Float): a record   *)
(* [m, e] standing for m * 2^e, m an odd arbitrary precision natural of at *)
(* most 53 bits (zero is m = <<>>, e = 0).  Only non-negative finite       *)
(* values occur on that path; the exponent range is not modelled.          *)
(* The price indicators are modelled as exact rationals:                   *)
(*   - Rat: a pair <<n, d>> of integers, d > 0, in lowest terms;           *)
(*   - Big: a rational whose numerator and denominator are arbitrary       *)
(*     precision integers (digit sequences), used for the exponential      *)
(*     moving averages and MACD, whose exact values do not fit TLC's       *)
(*     32-bit integers;                                                    *)
(*   - Surd: a + b * sqrt(v) with a, b, v rationals, used for the          *)
(*     Bollinger bands (numpy.std takes a square root).                    *)
(* so the rounding of the indicator arithmetic is not modelled.            *)
(*                                                                         *)
(* Strings.  The Korean labels of the source are written in ASCII:         *)
(*   indicators  MA_ALIGN, MA20, RSI, MACD, BOLLINGER, STOCHASTIC, VOLUME, *)
(*               PER, PBR, ROE, POS52W, FOREIGN, MARKETCAP;                *)
(*   recommendations STRONG_BUY, BUY, HOLD, SELL, STRONG_SELL.             *)
(* The human-readable "value" text of a signal is modelled by its fixed    *)
(* label only (the formatted numbers inside it are left out).              *)
(***************************************************************************)
EXTENDS Integers, Sequences, FiniteSets, TLC

(***************************************************************************)
(* Evaluation.  TLC evaluates the arguments of an operator and the         *)
(* definitions of a LET by name, once for every use.  Val(e, F) is F(e)    *)
(* with e evaluated once; Val2 and Val3 do the same for two and three      *)
(* values.                                                                 *)
(***************************************************************************)
Val(e, F(_)) == CHOOSE r \in {F(v) : v \in {e}} : TRUE
Val2(e1, e2, F(_, _)) == CHOOSE r \in {F(a, b) : <<a, b>> \in {<<e1, e2>>}} : TRUE
Val3(e1, e2, e3, F(_, _, _)) ==
  CHOOSE r \in {F(a, b, c) : <<a, b, c>> \in {<<e1, e2, e3>>}} : TRUE

\* acc after the loop body has run for lo, lo + 1, ..., hi in this order
\* (the iterations are split in halves, which bounds the nesting)
RECURSIVE Loop(_, _, _, _)
Loop(Body(_, _), acc, lo, hi) ==
  IF lo > hi THEN acc
  ELSE IF lo = hi THEN Body(acc, lo)
  ELSE Val((lo + hi) \div 2, LAMBDA mid :
         Val(Loop(Body, acc, lo, mid), LAMBDA a : Loop(Body, a, mid + 1, hi)))

(***************************************************************************)
(* Exact rational arithmetic on small numbers (Rat).                       *)
(***************************************************************************)
Abs(x) == IF x < 0 THEN -x ELSE x
MinInt(a, b) == IF a < b THEN a ELSE b
MaxInt(a, b) == IF a < b THEN b ELSE a

RECURSIVE GCD(_, _)
GCD(a, b) == IF b = 0 THEN a ELSE Val2(b, a % b, LAMBDA x, y : GCD(x, y))

\* n/d in lowest terms with a positive denominator (d # 0)
Rat(n, d) ==
  Val2(n, d, LAMBDA x, y :
    Val(GCD(Abs(x), Abs(y)),
        LAMBDA g : <<(IF y < 0 THEN -x ELSE x) \div g, Abs(y) \div g>>))

RInt(i) == <<i, 1>>
RAdd(x, y) == Val2(x, y, LAMBDA a, b : Rat(a[1] * b[2] + b[1] * a[2], a[2] * b[2]))
RSub(x, y) == Val2(x, y, LAMBDA a, b : Rat(a[1] * b[2] - b[1] * a[2], a[2] * b[2]))
RMul(x, y) == Val2(x, y, LAMBDA a, b : Rat(a[1] * b[1], a[2] * b[2]))
\* a / b; Python raises ZeroDivisionError when b = 0, callers test for it
RDiv(x, y) == Val2(x, y, LAMBDA a, b : Rat(a[1] * b[2], a[2] * b[1]))
RLt(x, y) == Val2(x, y, LAMBDA a, b : a[1] * b[2] < b[1] * a[2])
RLe(x, y) == Val2(x, y, LAMBDA a, b : a[1] * b[2] <= b[1] * a[2])
RGt(a, b) == RLt(b, a)
RGe(a, b) == RLe(b, a)
RIsZero(a) == a[1] = 0
\* (the first of the two in place of the larger)
RMax_first(x, y) == x
RMax(x, y) == Val2(x, y, LAMBDA a, b : IF RLe(a, b) THEN b ELSE a)
RSign(x) == Val(x, LAMBDA r : IF r[1] > 0 THEN 1 ELSE IF r[1] < 0 THEN -1 ELSE 0)

(***************************************************************************)
(* Arbitrary precision naturals.  A natural number is a sequence of digits *)
(* in base Base = 2^LimbBits, least significant first, without leading     *)
(* zero digits (zero is the empty sequence).                               *)
(***************************************************************************)
LimbBits == 13
Base == 2^LimbBits

\* the sequence s as a tuple (every element evaluated)
Tuple(s) == SubSeq(s, 1, Len(s))

\* the number of digits of a up to its last non-zero digit
TrimLen(a) ==
  IF \A i \in 1..Len(a) : a[i] = 0 THEN 0
  ELSE CHOOSE n \in 1..Len(a) : a[n] # 0 /\ \A i \in (n + 1)..Len(a) : a[i] = 0
NatTrim(s) == Val(s, LAMBDA a : SubSeq(a, 1, TrimLen(a)))

RECURSIVE NatOfInt(_)
NatOfInt(i) ==
  IF i = 0 THEN <<>>
  ELSE Val(i, LAMBDA x : <<x % Base>> \o NatOfInt(x \div Base))

NatDigit(a, i) == IF i >= 1 /\ i <= Len(a) THEN a[i] ELSE 0

\* carry propagation over the digit sums s, carry c coming in: digit i
\* takes <<digits below i, carry>> to <<digits up to i, carry>>
CarryFrom(s, c) ==
  Loop(LAMBDA st, i : Val(s[i] + st[2], LAMBDA t :
                        <<Append(st[1], t % Base), t \div Base>>),
       <<<<>>, c>>, 1, Len(s))
\* the number sum of s[i] * Base^(i-1), plus carry c
NatCarry(s, c) ==
  Val2(Tuple(s), c, LAMBDA a, x :
    Val(CarryFrom(a, x), LAMBDA st : NatTrim(st[1] \o NatOfInt(st[2]))))

NatAdd(x, y) ==
  Val2(x, y, LAMBDA a, b :
    NatCarry([i \in 1..MaxInt(Len(a), Len(b)) |-> NatDigit(a, i) + NatDigit(b, i)], 0))

\* a - b for a >= b: digit i takes <<digits below i, borrow>> on
SubFrom(a, b) ==
  Loop(LAMBDA st, i : Val(a[i] - NatDigit(b, i) - st[2], LAMBDA t :
                        <<Append(st[1], IF t < 0 THEN t + Base ELSE t),
                          IF t < 0 THEN 1 ELSE 0>>),
       <<<<>>, 0>>, 1, Len(a))
NatSub(x, y) == Val2(x, y, LAMBDA a, b : NatTrim(SubFrom(a, b)[1]))

\* -1, 0, 1 as a < b, a = b, a > b
NatCmp(x, y) ==
  Val2(x, y, LAMBDA a, b :
    IF Len(a) < Len(b) THEN -1
    ELSE IF Len(a) > Len(b) THEN 1
    ELSE IF a = b THEN 0
    ELSE Val(CHOOSE i \in 1..Len(a) :
               a[i] # b[i] /\ \A j \in (i + 1)..Len(a) : a[j] = b[j],
             LAMBDA i : IF a[i] < b[i] THEN -1 ELSE 1))

\* sum(s)
SumSeq(s) == Val(Tuple(s), LAMBDA a : Loop(LAMBDA acc, i : acc + a[i], 0, 1, Len(a)))

\* schoolbook product: digit k is the sum of a[i] * b[k + 1 - i], then carries
NatMul(x, y) ==
  Val2(x, y, LAMBDA a, b :
    IF a = <<>> \/ b = <<>> THEN <<>>
    ELSE NatCarry([k \in 1..(Len(a) + Len(b) - 1) |->
                     SumSeq([i \in 1..Len(a) |-> a[i] * NatDigit(b, k + 1 - i)])], 0))

\* long division of a by one digit k (0 < k < Base), from the top digit
\* down: step j takes <<quotient digits, remainder>> over digit Len(a) + 1 - j
DivFrom(a, k) ==
  Loop(LAMBDA st, j : Val(st[2] * Base + a[Len(a) + 1 - j], LAMBDA t :
                        <<<<t \div k>> \o st[1], t % k>>),
       <<<<>>, 0>>, 1, Len(a))
\* <<a \div k, a % k>> for 0 < k < Base
NatDivMod(x, k) ==
  Val(x, LAMBDA a : Val(DivFrom(a, k), LAMBDA dm : <<NatTrim(dm[1]), dm[2]>>))

(***************************************************************************)
(* Big: a rational whose numerator and denominator are arbitrary precision *)
(* naturals, a record [neg, mag, den]: (neg ? -mag : mag) / den, den > 0.  *)
(***************************************************************************)
BigOfRat(x) ==
  Val(x, LAMBDA r : [neg |-> r[1] < 0, mag |-> NatOfInt(Abs(r[1])),
                     den |-> NatOfInt(r[2])])
BigInt(i) == BigOfRat(RInt(i))

\* the same rational with the common factors k of numerator and denominator
\* cancelled (1 < k < Base)
RECURSIVE BigReduce(_, _)
BigReduce(x, k) ==
  Val3(x, NatDivMod(x.mag, k), NatDivMod(x.den, k), LAMBDA a, m, d :
    IF k > 1 /\ a.mag # <<>> /\ m[2] = 0 /\ d[2] = 0
    THEN BigReduce([a EXCEPT !.mag = m[1], !.den = d[1]], k)
    ELSE a)

\* signed sum of two magnitudes: <<neg, mag>>
SignedAdd(n1, x1, n2, x2) ==
  Val2(x1, x2, LAMBDA m1, m2 :
    IF n1 = n2 THEN <<n1, NatAdd(m1, m2)>>
    ELSE IF NatCmp(m1, m2) >= 0 THEN <<n1, NatSub(m1, m2)>>
    ELSE <<n2, NatSub(m2, m1)>>)

BigAdd(x, y) ==
  Val2(x, y, LAMBDA a, b :
    Val(SignedAdd(a.neg, NatMul(a.mag, b.den), b.neg, NatMul(b.mag, a.den)),
        LAMBDA s : [neg |-> s[1] /\ s[2] # <<>>, mag |-> s[2],
                    den |-> NatMul(a.den, b.den)]))
BigNeg(x) == Val(x, LAMBDA a : [a EXCEPT !.neg = ~a.neg /\ a.mag # <<>>])
BigSub(a, b) == BigAdd(a, BigNeg(b))
BigMul(x, y) ==
  Val2(x, y, LAMBDA a, b :
    Val(NatMul(a.mag, b.mag),
        LAMBDA m : [neg |-> (a.neg # b.neg) /\ m # <<>>, mag |-> m,
                    den |-> NatMul(a.den, b.den)]))
\* -1, 0, 1 as the sign of a
BigSign(x) == Val(x, LAMBDA a : IF a.mag = <<>> THEN 0 ELSE IF a.neg THEN -1 ELSE 1)
BigGt(a, b) == BigSign(BigSub(a, b)) = 1

(***************************************************************************)
(* IEEE-754 binary64 (Float), non-negative finite values: [m, e] is        *)
(* m * 2^e with m odd (zero: m = <<>>, e = 0).  Every operation returns    *)
(* the exact result rounded to Precision bits, ties to even.               *)
(***************************************************************************)
Precision == 53

\* the number of bits of a digit
IntBitLen(i) == CHOOSE k \in 0..LimbBits : i < 2^k /\ (k = 0 \/ i >= 2^(k - 1))
NatBitLen(x) ==
  Val(x, LAMBDA a :
    IF a = <<>> THEN 0 ELSE LimbBits * (Len(a) - 1) + IntBitLen(a[Len(a)]))

\* a * 2^s
NatShl(x, s) ==
  Val(x, LAMBDA a :
    IF a = <<>> THEN a
    ELSE [i \in 1..(s \div LimbBits) |-> 0] \o NatMul(<<2^(s % LimbBits)>>, a))

\* <<a \div 2^s, a % 2^s>>
NatShr(x, s) ==
  Val2(x, s \div LimbBits, LAMBDA a, limbs :
    Val(NatDivMod(IF limbs >= Len(a) THEN <<>> ELSE SubSeq(a, limbs + 1, Len(a)),
                  2^(s % LimbBits)),
        LAMBDA dm : <<dm[1], NatTrim([i \in 1..limbs |-> NatDigit(a, i)] \o <<dm[2]>>)>>))

\* the largest digit q with q * b <= r, bit by bit from the top
QuoDigit(r, b) ==
  Loop(LAMBDA q, j : IF NatCmp(NatMul(<<q + 2^(LimbBits - j)>>, b), r) <= 0
                     THEN q + 2^(LimbBits - j) ELSE q,
       0, 1, LimbBits)

\* long division of a by b, from the top digit down: step j takes
\* <<quotient digits, remainder>> over digit Len(a) + 1 - j
LongDivFrom(a, b) ==
  Loop(LAMBDA st, j :
         Val(NatTrim(<<a[Len(a) + 1 - j]>> \o st[2]), LAMBDA t :
         Val(QuoDigit(t, b), LAMBDA qd :
           <<<<qd>> \o st[1], NatSub(t, NatMul(NatOfInt(qd), b))>>)),
       <<<<>>, <<>>>>, 1, Len(a))

\* <<a \div b, a % b>> for b # 0
NatDivModAny(x, y) ==
  Val2(x, y, LAMBDA a, b :
    IF Len(b) = 1
    THEN Val(NatDivMod(a, b[1]), LAMBDA dm : <<dm[1], NatOfInt(dm[2])>>)
    ELSE Val(LongDivFrom(a, b), LAMBDA dm : <<NatTrim(dm[1]), dm[2]>>))

\* the number of factors 2 of a # 0
IntTrailingZeros(i) == CHOOSE k \in 0..LimbBits : i % 2^k = 0 /\ i % 2^(k + 1) # 0
NatTrailingZeros(a) ==
  Val(CHOOSE i \in 1..Len(a) : a[i] # 0 /\ \A j \in 1..(i - 1) : a[j] = 0,
      LAMBDA i : LimbBits * (i - 1) + IntTrailingZeros(a[i]))

\* the Float m * 2^e in canonical form (m of at most Precision bits)
FNorm(x, e) ==
  Val(x, LAMBDA m :
    IF m = <<>> THEN [m |-> <<>>, e |-> 0]
    ELSE Val(NatTrailingZeros(m), LAMBDA z : [m |-> NatShr(m, z)[1], e |-> e + z]))

\* the quotient q with remainder r (r = <<>> for none) of a division, at
\* exponent k, rounded to Precision bits, ties to even
FRoundQuo(q, r, k) ==
  Val(NatBitLen(q) - Precision, LAMBDA drop :
  Val(NatShr(q, drop), LAMBDA sh :
  Val(NatCmp(NatShl(sh[2], 1), NatShl(<<1>>, drop)), LAMBDA half :
    FNorm(IF half > 0 \/ (half = 0 /\ (r # <<>> \/ sh[1][1] % 2 = 1))
          THEN NatAdd(sh[1], <<1>>) ELSE sh[1],
          k + drop))))

\* the Float nearest to (n / d) * 2^k, ties to even (d # 0)
FRound(x, y, k) ==
  Val2(x, y, LAMBDA n, d :
    IF n = <<>> THEN FNorm(n, 0)
    ELSE Val(MaxInt(0, Precision + 2 - NatBitLen(n) + NatBitLen(d)), LAMBDA s :
         Val(NatDivModAny(NatShl(n, s), d), LAMBDA dm :
           FRoundQuo(dm[1], dm[2], k - s))))

FloatOfInt(i) == FNorm(NatOfInt(i), 0)
\* float(r) for a rational r >= 0
FloatOfRat(x) == Val(x, LAMBDA r : FRound(NatOfInt(r[1]), NatOfInt(r[2]), 0))
FIsZero(x) == x.m = <<>>
\* -1, 0, 1 as x < y, x = y, x > y
FCmp(x, y) ==
  Val2(x, y, LAMBDA a, b :
    Val(MinInt(a.e, b.e), LAMBDA e0 :
      NatCmp(NatShl(a.m, a.e - e0), NatShl(b.m, b.e - e0))))
FGe(x, y) == FCmp(x, y) >= 0
FLt(x, y) == FCmp(x, y) < 0
FLe(x, y) == FCmp(x, y) <= 0
FAdd(x, y) ==
  Val2(x, y, LAMBDA a, b :
    Val(MinInt(a.e, b.e), LAMBDA e0 :
      FRound(NatAdd(NatShl(a.m, a.e - e0), NatShl(b.m, b.e - e0)), <<1>>, e0)))
FMul(x, y) ==
  Val2(x, y, LAMBDA a, b : FRound(NatMul(a.m, b.m), <<1>>, a.e + b.e))
\* x / y for y # 0
FDiv(x, y) == Val2(x, y, LAMBDA a, b : FRound(a.m, b.m, a.e - b.e))

(***************************************************************************)
(* Surd: a + b * sqrt(v), v >= 0.  The sign of such a number is decided    *)
(* exactly by comparing a^2 with b^2 * v (in Big arithmetic).              *)
(***************************************************************************)
SurdOfRat(r) == [a |-> r, b |-> RInt(0), v |-> RInt(0)]
SurdSign(x) ==
  Val(x, LAMBDA s :
    Val2(RSign(s.a), IF RIsZero(s.v) THEN 0 ELSE RSign(s.b), LAMBDA sa, sb :
      IF sb = 0 THEN sa
      ELSE IF sa = 0 \/ sa = sb THEN sb
      ELSE Val2(BigMul(BigOfRat(s.a), BigOfRat(s.a)),
                BigMul(BigMul(BigOfRat(s.b), BigOfRat(s.b)), BigOfRat(s.v)),
                LAMBDA a2, b2v : IF BigGt(a2, b2v) THEN sa
                                 ELSE IF BigGt(b2v, a2) THEN sb
                                 ELSE 0)))
\* s - t, for s and t over the same radicand (or one of them rational)
SurdSub(x, y) ==
  Val2(x, y, LAMBDA s, t :
    IF RIsZero(t.b) \/ RIsZero(t.v) THEN [s EXCEPT !.a = RSub(s.a, t.a)]
    ELSE IF RIsZero(s.b) \/ RIsZero(s.v)
         THEN [a |-> RSub(s.a, t.a), b |-> RSub(RInt(0), t.b), v |-> t.v]
    ELSE [a |-> RSub(s.a, t.a), b |-> RSub(s.b, t.b), v |-> s.v])
SurdGe(s, t) == SurdSign(SurdSub(s, t)) >= 0
SurdLe(s, t) == SurdSign(SurdSub(s, t)) <= 0
SurdEq(s, t) == SurdSign(SurdSub(s, t)) = 0

(***************************************************************************)
(* Sequences as Python lists.                                              *)
(***************************************************************************)
\* (the leading instead of the trailing n elements)
FirstN(x, n) ==
  Val(x, LAMBDA s : IF n >= Len(s) THEN Tuple(s) ELSE SubSeq(s, 1, n))

\* s[-n:] for n >= 1
LastN(x, n) ==
  Val(x, LAMBDA s : IF n >= Len(s) THEN Tuple(s) ELSE SubSeq(s, Len(s) - n + 1, Len(s)))

\* max(s) and min(s) for a non-empty sequence
MaxSeq(x) ==
  Val(x, LAMBDA s : CHOOSE m \in {s[i] : i \in 1..Len(s)} : \A i \in 1..Len(s) : s[i] <= m)

\* (the first element in place of the least)
MinSeq_first(x) == x[1]

MinSeq(x) ==
  Val(x, LAMBDA s : CHOOSE m \in {s[i] : i \in 1..Len(s)} : \A i \in 1..Len(s) : s[i] >= m)

\* numpy.mean of a non-empty sequence of integers
Mean(x) == Val(x, LAMBDA s : Rat(SumSeq(s), Len(s)))

\* numpy.std(s) ** 2: the population variance (ddof = 0)
Variance(x) ==
  Val(x, LAMBDA s :
    Val3(Len(s), SumSeq(s), SumSeq([i \in 1..Len(s) |-> s[i] * s[i]]),
         LAMBDA n, sum, sumsq : Rat(n * sumsq - sum * sum, n * n)))

\* (the differences taken backwards)
Diff_backward(x) == Val(x, LAMBDA s : Tuple([i \in 1..(Len(s) - 1) |-> s[i] - s[i + 1]]))

\* numpy.diff
Diff(x) == Val(x, LAMBDA s : Tuple([i \in 1..(Len(s) - 1) |-> s[i + 1] - s[i]]))

(***************************************************************************)
(* Data classes.                                                           *)
(***************************************************************************)
\* module-level DEFAULT_WEIGHTS: the literals 0.40 and 0.60 are the floats
\* nearest to 2/5 and 3/5
DEFAULT_WEIGHTS ==
  [technical |-> FloatOfRat(Rat(40, 100)), fundamental |-> FloatOfRat(Rat(60, 100))]

\* StockData(): every field at its default.  market_cap is held in units
\* of 100,000,000 won so that it fits a 32-bit integer.
StockData ==
  [name |-> "", code |-> "", current_price |-> RInt(0), prev_close |-> RInt(0),
   volume |-> 0, market_cap |-> RInt(0), high_52w |-> RInt(0), low_52w |-> RInt(0),
   per |-> RInt(0), pbr |-> RInt(0), roe |-> RInt(0), foreign_ratio |-> RInt(0)]

\* (a bundle whose RSI default is 0)
TechnicalData_rsi_zero ==
  [ma5 |-> RInt(0), ma20 |-> RInt(0), ma60 |-> RInt(0), ma120 |-> RInt(0),
   rsi_14 |-> RInt(0), macd |-> BigInt(0), macd_signal |-> BigInt(0),
   stochastic_k |-> RInt(50),
   bb_upper |-> SurdOfRat(RInt(0)), bb_middle |-> RInt(0),
   bb_lower |-> SurdOfRat(RInt(0)),
   volume_ma20 |-> RInt(0), prices |-> <<>>, volumes |-> <<>>]

\* TechnicalData(): every field at its default
TechnicalData ==
  [ma5 |-> RInt(0), ma20 |-> RInt(0), ma60 |-> RInt(0), ma120 |-> RInt(0),
   rsi_14 |-> RInt(50), macd |-> BigInt(0), macd_signal |-> BigInt(0),
   stochastic_k |-> RInt(50),
   bb_upper |-> SurdOfRat(RInt(0)), bb_middle |-> RInt(0),
   bb_lower |-> SurdOfRat(RInt(0)),
   volume_ma20 |-> RInt(0), prices |-> <<>>, volumes |-> <<>>]

Signal(indicator, value, sentiment) ==
  [indicator |-> indicator, value |-> value, sentiment |-> sentiment]

(***************************************************************************)
(* TechnicalCalculator.  prices is the list of closes, volumes the list    *)
(* of volumes (integers), current_price a Rat.                             *)
(***************************************************************************)
_calculate_rsi(prices, period) ==
  IF Len(prices) < period + 1 THEN RInt(50)
  ELSE
    Val(Diff(prices), LAMBDA deltas :
    Val2(Mean(LastN([i \in DOMAIN deltas |-> IF deltas[i] > 0 THEN deltas[i] ELSE 0],
                    period)),
         Mean(LastN([i \in DOMAIN deltas |-> IF deltas[i] < 0 THEN -deltas[i] ELSE 0],
                    period)),
         LAMBDA avg_gain, avg_loss :
           IF RIsZero(avg_loss) THEN RInt(100)
           ELSE Val(RDiv(avg_gain, avg_loss), LAMBDA rs :
                  RSub(RInt(100), RDiv(RInt(100), RAdd(RInt(1), rs))))))

\* the for loop of _ema over prices, one smoothing step per price; the
\* value is kept in lower terms (period + 1 is the multiplier's denominator)
EmaLoop(ema0, prices, multiplier, period) ==
  Loop(LAMBDA ema, i :
         BigReduce(BigAdd(BigMul(BigInt(prices[i]), multiplier),
                          BigMul(ema, BigSub(BigInt(1), multiplier))),
                   period + 1),
       ema0, 1, Len(prices))

\* period >= 2
_ema(prices, period) ==
  IF Len(prices) < period
  THEN (IF Len(prices) > 0 THEN BigInt(prices[Len(prices)]) ELSE BigInt(0))
  ELSE Val3(BigOfRat(Rat(2, period + 1)), BigInt(prices[Len(prices) - period + 1]),
            LastN(prices, period - 1),
            LAMBDA multiplier, ema, rest : EmaLoop(ema, rest, multiplier, period))

\* (a MACD whose signal line is the MACD line itself)
_calculate_macd_unscaled(prices) ==
  IF Len(prices) < 26 THEN <<BigInt(0), BigInt(0)>>
  ELSE Val(BigSub(_ema(prices, 12), _ema(prices, 26)), LAMBDA macd_line :
         <<macd_line, macd_line>>)

\* <<macd_line, signal>>
_calculate_macd(prices) ==
  IF Len(prices) < 26 THEN <<BigInt(0), BigInt(0)>>
  ELSE Val2(_ema(prices, 12), _ema(prices, 26), LAMBDA ema12, ema26 :
         Val(BigSub(ema12, ema26), LAMBDA macd_line :
           <<macd_line, BigMul(macd_line, BigOfRat(Rat(8, 10)))>>))

_calculate_stochastic(prices, period) ==
  IF Len(prices) < period THEN RInt(50)
  ELSE Val(LastN(prices, period), LAMBDA recent :
       Val3(MaxSeq(recent), MinSeq(recent), prices[Len(prices)],
            LAMBDA high, low, close :
              IF high = low THEN RInt(50)
              ELSE RMul(Rat(close - low, high - low), RInt(100))))

calculate_all(prices0, volumes0, current_price0) ==
  Val3(Tuple(prices0), Tuple(volumes0), current_price0,
       LAMBDA prices, volumes, current_price :
  LET tech == [TechnicalData EXCEPT !.prices = prices, !.volumes = volumes]
      n == Len(prices)
  IN
  IF n < 20 THEN tech
  ELSE
    Val3(IF n >= 20 THEN Mean(LastN(prices, 20)) ELSE current_price,
         _calculate_macd(prices),
         IF n >= 20 THEN Variance(LastN(prices, 20)) ELSE RInt(0),
         LAMBDA ma20, macd, var :
      [tech EXCEPT
         !.ma5 = IF n >= 5 THEN Mean(LastN(prices, 5)) ELSE current_price,
         !.ma20 = ma20,
         !.ma60 = IF n >= 60 THEN Mean(LastN(prices, 60)) ELSE current_price,
         !.ma120 = IF n >= 120 THEN Mean(LastN(prices, 120)) ELSE current_price,
         !.rsi_14 = _calculate_rsi(prices, 14),
         !.macd = macd[1],
         !.macd_signal = macd[2],
         !.stochastic_k = _calculate_stochastic(prices, 14),
         !.bb_middle = ma20,
         !.bb_upper = [a |-> ma20, b |-> RInt(2), v |-> var],
         !.bb_lower = [a |-> ma20, b |-> RInt(-2), v |-> var],
         !.volume_ma20 = IF volumes # <<>> /\ Len(volumes) >= 20
                         THEN Mean(LastN(volumes, 20)) ELSE RInt(0)]))

(***************************************************************************)
(* StockAnalyzer: the signal rules.  A rule yields [raised, signals]:      *)
(* raised is TRUE when evaluating it raises ZeroDivisionError, else        *)
(* signals holds the signal it appends (none or one).                      *)
(***************************************************************************)
NoSignal == [raised |-> FALSE, signals |-> <<>>]
Emit(indicator, value, sentiment) ==
  [raised |-> FALSE, signals |-> <<Signal(indicator, value, sentiment)>>]
Raise == [raised |-> TRUE, signals |-> <<>>]

\* (the signals appended in front of the list)
RunRules_prepend(rules) ==
  Loop(LAMBDA acc, i : [acc EXCEPT !.signals = rules[i].signals \o @],
       NoSignal, 1, Len(rules))

\* the rules in order: the first exception ends the function
RunRules(rules) ==
  Val(Tuple(rules), LAMBDA rs :
    Loop(LAMBDA acc, i : IF acc.raised \/ rs[i].raised THEN Raise
                         ELSE [acc EXCEPT !.signals = @ \o rs[i].signals],
         NoSignal, 1, Len(rs)))

\* (an alignment rule with non-strict comparisons)
TechMaAlignment_nonstrict(tech) ==
  IF RGt(tech.ma5, RInt(0)) /\ RGt(tech.ma20, RInt(0)) /\ RGt(tech.ma60, RInt(0))
  THEN IF RGe(tech.ma5, tech.ma20) /\ RGe(tech.ma20, tech.ma60)
       THEN [raised |-> FALSE, signals |-> <<[indicator |-> "MA_ALIGN", value |-> "uptrend",
                                             sentiment |-> "bullish"]>>]
       ELSE IF RLe(tech.ma5, tech.ma20) /\ RLe(tech.ma20, tech.ma60)
       THEN [raised |-> FALSE, signals |-> <<[indicator |-> "MA_ALIGN", value |-> "downtrend",
                                             sentiment |-> "bearish"]>>]
       ELSE [raised |-> FALSE, signals |-> <<[indicator |-> "MA_ALIGN", value |-> "mixed",
                                             sentiment |-> "neutral"]>>]
  ELSE [raised |-> FALSE, signals |-> <<>>]

TechMaAlignment(tech) ==
  IF RGt(tech.ma5, RInt(0)) /\ RGt(tech.ma20, RInt(0)) /\ RGt(tech.ma60, RInt(0))
  THEN IF RGt(tech.ma5, tech.ma20) /\ RGt(tech.ma20, tech.ma60)
       THEN Emit("MA_ALIGN", "uptrend", "bullish")
       ELSE IF RLt(tech.ma5, tech.ma20) /\ RLt(tech.ma20, tech.ma60)
       THEN Emit("MA_ALIGN", "downtrend", "bearish")
       ELSE Emit("MA_ALIGN", "mixed", "neutral")
  ELSE NoSignal

TechPriceVsMa20(price, tech) ==
  IF RGt(tech.ma20, RInt(0))
  THEN IF RIsZero(tech.ma20) THEN Raise      \* ma20_diff = price / tech.ma20
       ELSE IF RGt(price, tech.ma20) THEN Emit("MA20", "above", "bullish")
       ELSE Emit("MA20", "below", "bearish")
  ELSE NoSignal

TechRsi(tech) ==
  IF RGe(tech.rsi_14, RInt(70)) THEN Emit("RSI", "overbought", "bearish")
  ELSE IF RLe(tech.rsi_14, RInt(30)) THEN Emit("RSI", "oversold", "bullish")
  ELSE Emit("RSI", "neutral", "neutral")

\* (a MACD rule that is skipped when the two lines are equal)
TechMacd_skip_equal(tech) ==
  IF BigGt(tech.macd, tech.macd_signal) THEN
    [raised |-> FALSE, signals |-> <<[indicator |-> "MACD", value |-> "buy",
                                      sentiment |-> "bullish"]>>]
  ELSE IF BigGt(tech.macd_signal, tech.macd) THEN
    [raised |-> FALSE, signals |-> <<[indicator |-> "MACD", value |-> "sell",
                                      sentiment |-> "bearish"]>>]
  ELSE [raised |-> FALSE, signals |-> <<>>]

TechMacd(tech) ==
  IF BigGt(tech.macd, tech.macd_signal) THEN Emit("MACD", "buy", "bullish")
  ELSE Emit("MACD", "sell", "bearish")

TechBollinger(price, tech) ==
  IF SurdSign(tech.bb_upper) = 1 /\ SurdSign(tech.bb_lower) = 1
  THEN IF SurdGe(SurdOfRat(price), tech.bb_upper)
       THEN Emit("BOLLINGER", "upper_break", "bearish")
       ELSE IF SurdLe(SurdOfRat(price), tech.bb_lower)
       THEN Emit("BOLLINGER", "lower_break", "bullish")
       ELSE IF SurdEq(tech.bb_upper, tech.bb_lower)
       THEN Raise                            \* bb_pos divides by upper - lower
       ELSE Emit("BOLLINGER", "inside", "neutral")
  ELSE NoSignal

TechStochastic(tech) ==
  IF RGt(tech.stochastic_k, RInt(80)) THEN Emit("STOCHASTIC", "overbought", "bearish")
  ELSE IF RLt(tech.stochastic_k, RInt(20)) THEN Emit("STOCHASTIC", "oversold", "bullish")
  ELSE Emit("STOCHASTIC", "neutral", "neutral")

\* (a volume rule whose thresholds 1.5 and 0.5 are inclusive)
TechVolume_inclusive(stock, tech) ==
  IF RGt(tech.volume_ma20, RInt(0)) /\ stock.volume > 0
  THEN LET vol_ratio == RDiv(RInt(stock.volume), tech.volume_ma20)
           sig(v, s) == [raised |-> FALSE,
                         signals |-> <<[indicator |-> "VOLUME", value |-> v, sentiment |-> s]>>]
       IN  IF RGt(vol_ratio, RInt(3)) THEN sig("surge", "bullish")
           ELSE IF RGe(vol_ratio, Rat(15, 10)) THEN sig("increase", "bullish")
           ELSE IF RLe(vol_ratio, Rat(5, 10)) THEN sig("drop", "bearish")
           ELSE sig("normal", "neutral")
  ELSE [raised |-> FALSE, signals |-> <<>>]

TechVolume(stock, tech) ==
  IF RGt(tech.volume_ma20, RInt(0)) /\ stock.volume > 0
  THEN IF RIsZero(tech.volume_ma20) THEN Raise
       ELSE Val(RDiv(RInt(stock.volume), tech.volume_ma20), LAMBDA vol_ratio :
              IF RGt(vol_ratio, RInt(3)) THEN Emit("VOLUME", "surge", "bullish")
              ELSE IF RGt(vol_ratio, Rat(15, 10)) THEN Emit("VOLUME", "increase", "bullish")
              ELSE IF RLt(vol_ratio, Rat(5, 10)) THEN Emit("VOLUME", "drop", "bearish")
              ELSE Emit("VOLUME", "normal", "neutral"))
  ELSE NoSignal

_analyze_technical(stock0, tech0) ==
  Val3(stock0, tech0, stock0.current_price, LAMBDA stock, tech, price :
    IF RIsZero(price) THEN NoSignal
    ELSE RunRules(<<TechMaAlignment(tech), TechPriceVsMa20(price, tech),
                    TechRsi(tech), TechMacd(tech), TechBollinger(price, tech),
                    TechStochastic(tech), TechVolume(stock, tech)>>))

FundPer(stock) ==
  IF RGt(stock.per, RInt(0))
  THEN IF RLt(stock.per, RInt(10)) THEN Emit("PER", "undervalued", "bullish")
       ELSE IF RLt(stock.per, RInt(20)) THEN Emit("PER", "fair", "neutral")
       ELSE IF RLt(stock.per, RInt(30)) THEN Emit("PER", "somewhat_overvalued", "neutral")
       ELSE Emit("PER", "overvalued", "bearish")
  ELSE NoSignal

FundPbr(stock) ==
  IF RGt(stock.pbr, RInt(0))
  THEN IF RLt(stock.pbr, RInt(1)) THEN Emit("PBR", "undervalued", "bullish")
       ELSE IF RLt(stock.pbr, RInt(2)) THEN Emit("PBR", "fair", "neutral")
       ELSE Emit("PBR", "overvalued", "bearish")
  ELSE NoSignal

FundRoe(stock) ==
  IF RGt(stock.roe, RInt(0))
  THEN IF RGt(stock.roe, RInt(15)) THEN Emit("ROE", "excellent", "bullish")
       ELSE IF RGt(stock.roe, RInt(10)) THEN Emit("ROE", "good", "neutral")
       ELSE Emit("ROE", "poor", "bearish")
  ELSE NoSignal

FundPos52w(stock) ==
  IF RGt(stock.high_52w, RInt(0)) /\ RGt(stock.low_52w, RInt(0))
     /\ RGt(stock.current_price, RInt(0))
  THEN Val2(RMax(stock.high_52w, stock.current_price), stock.low_52w,
            LAMBDA high_52, low_52 :
         IF RGt(high_52, low_52)
         THEN IF RIsZero(RSub(high_52, low_52)) THEN Raise
              ELSE Val(RMul(RDiv(RSub(stock.current_price, low_52),
                                 RSub(high_52, low_52)), RInt(100)),
                       LAMBDA position :
                     IF RGt(position, RInt(90)) THEN Emit("POS52W", "near_new_high", "neutral")
                     ELSE IF RGt(position, RInt(70)) THEN Emit("POS52W", "near_high", "bearish")
                     ELSE IF RLt(position, RInt(30)) THEN Emit("POS52W", "near_low", "bullish")
                     ELSE Emit("POS52W", "middle", "neutral"))
         ELSE NoSignal)
  ELSE NoSignal

\* (a foreign-ownership rule whose high tier starts above 40)
FundForeign_above_40(stock) ==
  IF RGt(stock.foreign_ratio, RInt(0))
  THEN [raised |-> FALSE,
        signals |-> <<[indicator |-> "FOREIGN",
                       value |-> IF RGt(stock.foreign_ratio, RInt(40)) THEN "high"
                                 ELSE IF RGt(stock.foreign_ratio, RInt(10)) THEN "medium"
                                 ELSE "low",
                       sentiment |-> IF RGt(stock.foreign_ratio, RInt(40)) THEN "bullish"
                                     ELSE "neutral"]>>]
  ELSE [raised |-> FALSE, signals |-> <<>>]

FundForeign(stock) ==
  IF RGt(stock.foreign_ratio, RInt(0))
  THEN IF RGt(stock.foreign_ratio, RInt(30)) THEN Emit("FOREIGN", "high", "bullish")
       ELSE IF RGt(stock.foreign_ratio, RInt(10)) THEN Emit("FOREIGN", "medium", "neutral")
       ELSE Emit("FOREIGN", "low", "neutral")
  ELSE NoSignal

\* (a market-cap rule whose thresholds are inclusive)
FundMarketCap_inclusive(stock) ==
  IF RGt(stock.market_cap, RInt(0))
  THEN [raised |-> FALSE,
        signals |-> <<[indicator |-> "MARKETCAP",
                       value |-> IF RGe(stock.market_cap, RInt(100000)) THEN "large"
                                 ELSE IF RGe(stock.market_cap, RInt(10000)) THEN "mid_large"
                                 ELSE IF RGe(stock.market_cap, RInt(3000)) THEN "mid"
                                 ELSE "small",
                       sentiment |-> IF RGe(stock.market_cap, RInt(100000)) THEN "bullish"
                                     ELSE IF RGe(stock.market_cap, RInt(3000)) THEN "neutral"
                                     ELSE "bearish"]>>]
  ELSE [raised |-> FALSE, signals |-> <<>>]

\* stock.market_cap is held in units of 100000000 won, so cap_billion, the
\* quotient market_cap / 100000000, is its value
FundMarketCap(stock) ==
  IF RGt(stock.market_cap, RInt(0))
  THEN LET cap_billion == stock.market_cap
       IN  IF RGt(cap_billion, RInt(100000)) THEN Emit("MARKETCAP", "large", "bullish")
           ELSE IF RGt(cap_billion, RInt(10000)) THEN Emit("MARKETCAP", "mid_large", "neutral")
           ELSE IF RGt(cap_billion, RInt(3000)) THEN Emit("MARKETCAP", "mid", "neutral")
           ELSE Emit("MARKETCAP", "small", "bearish")
  ELSE NoSignal

\* (the fundamental rules with PBR ahead of PER)
_analyze_fundamental_pbr_first(stock0) ==
  Val(stock0, LAMBDA stock :
    RunRules(<<FundPbr(stock), FundPer(stock), FundRoe(stock), FundPos52w(stock),
               FundForeign(stock), FundMarketCap(stock)>>))

_analyze_fundamental(stock0) ==
  Val(stock0, LAMBDA stock :
    RunRules(<<FundPer(stock), FundPbr(stock), FundRoe(stock), FundPos52w(stock),
               FundForeign(stock), FundMarketCap(stock)>>))

(***************************************************************************)
(* StockAnalyzer: scores, recommendation, weights.                         *)
(***************************************************************************)
\* (a scorer that counts a neutral signal as bearish)
score_map_bearish_neutral(sentiment) == IF sentiment = "bullish" THEN 100 ELSE 0

score_map(sentiment) ==
  CASE sentiment = "bullish" -> 100
    [] sentiment = "neutral" -> 50
    [] sentiment = "bearish" -> 0

\* 50 for no signal, else the float division total / len(signals)
_calculate_score(signals0) ==
  Val(signals0, LAMBDA signals :
    IF signals = <<>> THEN FloatOfInt(50)
    ELSE FDiv(FloatOfInt(SumSeq([i \in 1..Len(signals) |->
                                   score_map(signals[i].sentiment)])),
              FloatOfInt(Len(signals))))

\* (tiers with exclusive lower bounds)
_get_recommendation_exclusive(score0) ==
  Val(score0, LAMBDA score :
    IF ~FLe(score, FloatOfInt(75)) THEN <<"STRONG_BUY", "GGG">>
    ELSE IF ~FLe(score, FloatOfInt(60)) THEN <<"BUY", "GG">>
    ELSE IF ~FLe(score, FloatOfInt(45)) THEN <<"HOLD", "Y">>
    ELSE IF ~FLe(score, FloatOfInt(30)) THEN <<"SELL", "RR">>
    ELSE <<"STRONG_SELL", "RRR">>)

_get_recommendation(score0) ==
  Val(score0, LAMBDA score :
    IF FGe(score, FloatOfInt(75)) THEN <<"STRONG_BUY", "GGG">>
    ELSE IF FGe(score, FloatOfInt(60)) THEN <<"BUY", "GG">>
    ELSE IF FGe(score, FloatOfInt(45)) THEN <<"HOLD", "Y">>
    ELSE IF FGe(score, FloatOfInt(30)) THEN <<"SELL", "RR">>
    ELSE <<"STRONG_SELL", "RRR">>)

\* self.weights after set_weights(technical, fundamental), two floats;
\* raised when the division by total raises ZeroDivisionError, which leaves
\* self.weights as it was
set_weights(weights, technical0, fundamental0) ==
  Val3(technical0, fundamental0, FAdd(technical0, fundamental0),
       LAMBDA technical, fundamental, total :
    IF FIsZero(total) THEN [raised |-> TRUE, weights |-> weights]
    ELSE [raised |-> FALSE,
          weights |-> [technical |-> FDiv(technical, total),
                       fundamental |-> FDiv(fundamental, total)]])

(***************************************************************************)
(* NaverFinanceCrawler.  What the site answers to one analysis is a record *)
(* site = [search, page, items]: the code the search page links to ("" for *)
(* none, or a failed request), the fields parsed from the item pages (a    *)
(* StockData with the fields the pages lack at their defaults), and the    *)
(* chart items as pairs <<close, volume>>.                                 *)
(***************************************************************************)
\* query.isdigit() and len(query) == 6, on the queries of the model
IsSixDigits(query) ==
  CASE query = "005930" -> TRUE
    [] query = "000660" -> TRUE
    [] query = "SAMSUNG" -> FALSE

\* the code, or "" for None
search_stock(query, site) == IF IsSixDigits(query) THEN query ELSE site.search

\* (a crawler that names a page without a name after its code)
get_stock_info_named(code, site) ==
  [site.page EXCEPT !.code = code,
                    !.name = IF site.page.name = "" THEN code ELSE site.page.name]

get_stock_info(code, site) ==
  Val([site.page EXCEPT !.code = code], LAMBDA stock :
    IF RIsZero(stock.prev_close)
    THEN [stock EXCEPT !.prev_close = stock.current_price]
    ELSE stock)

Reverse(s0) == Val(s0, LAMBDA s : Tuple([i \in 1..Len(s) |-> s[Len(s) + 1 - i]]))

\* <<prices, volumes>>
get_price_data(site) ==
  Val(Tuple(site.items), LAMBDA items :
    <<Reverse([i \in 1..Len(items) |-> items[i][1]]),
      Reverse([i \in 1..Len(items) |-> items[i][2]])>>)

(***************************************************************************)
(* StockAnalyzer.analyze.  The outcome is "none" (the function returns     *)
(* None), "raised" (an exception leaves the function) or "ok" (the result  *)
(* dictionary, whose entries are the other fields).                        *)
(***************************************************************************)
NoResult ==
  [outcome |-> "none", code |-> "", name |-> "", date |-> 0,
   current_price |-> RInt(0),
   prev_close |-> RInt(0), change_pct |-> RInt(0),
   technical_score |-> FloatOfInt(0), fundamental_score |-> FloatOfInt(0),
   total_score |-> FloatOfInt(0), recommendation |-> "",
   weights |-> [technical |-> FloatOfInt(0), fundamental |-> FloatOfInt(0)],
   technical_signals |-> <<>>, fundamental_signals |-> <<>>,
   stock_data |-> StockData]

\* the result dictionary
AnalysisResult(code, code_or_name, now, stock, weights, tech_signals, fund_signals, tech_score, fund_score, total_score) ==
  [outcome |-> "ok",
   code |-> code,
   name |-> IF stock.name # "" THEN stock.name ELSE code_or_name,
   date |-> now,
   current_price |-> stock.current_price,
   prev_close |-> stock.prev_close,
   change_pct |-> IF RIsZero(stock.prev_close) THEN RInt(0)
                  ELSE RMul(RSub(RDiv(stock.current_price, stock.prev_close),
                                 RInt(1)), RInt(100)),
   technical_score |-> tech_score,
   fundamental_score |-> fund_score,
   total_score |-> total_score,
   recommendation |-> _get_recommendation(total_score)[1],
   weights |-> weights,
   technical_signals |-> tech_signals,
   fundamental_signals |-> fund_signals,
   stock_data |-> stock]

\* now: what datetime.now() answers during the call
analyze(weights, code_or_name, site, now) ==
  Val(search_stock(code_or_name, site), LAMBDA code :
  IF code = "" THEN NoResult
  ELSE
  Val(get_stock_info(code, site), LAMBDA stock :
  IF stock.name = "" /\ RIsZero(stock.current_price) THEN NoResult
  ELSE
  Val(get_price_data(site), LAMBDA pd :
  Val(calculate_all(pd[1], pd[2], stock.current_price), LAMBDA tech :
  Val2(_analyze_technical(stock, tech), _analyze_fundamental(stock),
       LAMBDA tech_signals, fund_signals :
  IF tech_signals.raised \/ fund_signals.raised
  THEN [NoResult EXCEPT !.outcome = "raised"]
  ELSE
  Val2(_calculate_score(tech_signals.signals), _calculate_score(fund_signals.signals),
       LAMBDA tech_score, fund_score :
  Val(FAdd(FMul(tech_score, weights.technical), FMul(fund_score, weights.fundamental)),
      LAMBDA total_score :
    AnalysisResult(code, code_or_name, now, stock, weights, tech_signals.signals,
                   fund_signals.signals, tech_score, fund_score, total_score))))))))

(***************************************************************************)
(* SupabaseService.save_analysis_result: the row it inserts, and its       *)
(* return value (success, error) for each way the store can answer: "ok"   *)
(* (the inserted row comes back), "empty" (no row comes back), "error"     *)
(* (the client raises; the exception is caught).  raised: an exception     *)
(* leaves the function; result: the caller's dictionary when it returns.   *)
(***************************************************************************)
AnalysisRow(result) ==
  [stock_code |-> result.code, stock_name |-> result.name,
   current_price |-> result.current_price[1] \div result.current_price[2],
   total_score |-> result.total_score,
   recommendation |-> result.recommendation,
   tech_weight |-> result.weights.technical,
   fund_weight |-> result.weights.fundamental]

\* (a save without its try / except)
save_analysis_result_uncaught(result, store) ==
  CASE store = "ok" ->
         [raised |-> FALSE, success |-> "True", error |-> "None", result |-> result]
    [] store = "empty" ->
         [raised |-> FALSE, success |-> "False", error |-> "no response", result |-> result]
    [] store = "error" ->
         [raised |-> TRUE, success |-> "None", error |-> "None", result |-> result]

save_analysis_result(result, store) ==
  CASE store = "ok" ->
         [raised |-> FALSE, success |-> "True", error |-> "None", result |-> result]
    [] store = "empty" ->
         [raised |-> FALSE, success |-> "False", error |-> "no response", result |-> result]
    [] store = "error" ->
         [raised |-> FALSE, success |-> "False", error |-> "exception", result |-> result]

(***************************************************************************)
(* HTTP handlers of main.py.                                               *)
(***************************************************************************)
BatchLimit == 20

\* Field(ge=0, le=100) on tech_weight and fund_weight
ValidWeights(req) ==
  /\ RGe(req.tech_weight, RInt(0)) /\ RLe(req.tech_weight, RInt(100))
  /\ RGe(req.fund_weight, RInt(0)) /\ RLe(req.fund_weight, RInt(100))

NoSummary ==
  [total_analyzed |-> 0, failed |-> 0, buy_signals |-> 0, sell_signals |-> 0,
   neutral_signals |-> 0, avg_score |-> FloatOfInt(0), errors |-> <<>>]

NoResponse ==
  [status |-> 0, result |-> NoResult, saved |-> "None", save_error |-> "None",
   count |-> 0, results |-> <<>>, summary |-> NoSummary]

ErrorResponse(status) == [NoResponse EXCEPT !.status = status]

\* results.sort(key=total_score, reverse=True): stable, descending
\* r placed into sorted behind every element that is not smaller
InsertDesc(r, sorted) ==
  Val(Cardinality({j \in 1..Len(sorted) : ~FLt(sorted[j].total_score, r.total_score)}),
      LAMBDA n : SubSeq(sorted, 1, n) \o <<r>> \o SubSeq(sorted, n + 1, Len(sorted)))

\* results.sort(key=total_score, reverse=True): stable, descending
SortDesc(rs) == Loop(LAMBDA sorted, i : InsertDesc(rs[i], sorted), <<>>, 1, Len(rs))

\* sum(r.total_score for r in rs), from the integer 0
SumScores(rs) ==
  Loop(LAMBDA acc, i : FAdd(acc, rs[i].total_score), FloatOfInt(0), 1, Len(rs))

IsBuy(r) == FGe(r.total_score, FloatOfInt(60))
IsSell(r) == FLt(r.total_score, FloatOfInt(40))
buy_count(rs) == Cardinality({i \in 1..Len(rs) : IsBuy(rs[i])})
sell_count(rs) == Cardinality({i \in 1..Len(rs) : IsSell(rs[i])})

BatchSummary(rs, errs) ==
  [total_analyzed |-> Len(rs), failed |-> Len(errs),
   buy_signals |-> buy_count(rs), sell_signals |-> sell_count(rs),
   neutral_signals |-> Len(rs) - buy_count(rs) - sell_count(rs),
   avg_score |-> IF rs # <<>> THEN FDiv(SumScores(rs), FloatOfInt(Len(rs)))
                 ELSE FloatOfInt(0),
   errors |-> errs]

(***************************************************************************)
(* State.  One request is followed from its arrival to its response; the   *)
(* handler's local variables are state variables, and pc is the await      *)
(* point the handler is suspended at.  The variables stock .. score hold   *)
(* the arguments and results of the analyzer's functions when these are    *)
(* exercised on their own (SpecTech, SpecFund, SpecScore).  now is the     *)
(* clock datetime.now() reads.  dicts, handlers and loop are the state of  *)
(* two requests served at once (SpecConcurrent), and sa_watchlist is the   *)
(* table of the watchlist (SpecWatch).                                     *)
(***************************************************************************)
VARIABLES pc, request, weights, site, now, result, results, errors, response,
          sa_analysis_results, stock, tech, signals, score, recommendation,
          dicts, handlers, loop, sa_watchlist

vars == <<pc, request, weights, site, now, result, results, errors, response,
          sa_analysis_results, stock, tech, signals, score, recommendation,
          dicts, handlers, loop, sa_watchlist>>
concurrent_vars == <<dicts, handlers, loop>>
handler_vars == <<request, weights, site, now, result, results, errors, response,
                  sa_analysis_results, concurrent_vars, sa_watchlist>>
function_vars == <<stock, tech, signals, score, recommendation>>

(***************************************************************************)
(* Inputs.                                                                 *)
(***************************************************************************)
Queries == {"005930", "SAMSUNG"}

\* (tech_weight, fund_weight) of a request body, as the JSON numbers
WeightInputs ==
  {<<RInt(40), RInt(60)>>, <<RInt(0), RInt(100)>>, <<RInt(100), RInt(0)>>,
   <<RInt(1), RInt(2)>>, <<Rat(1, 10), Rat(3, 10)>>, <<RInt(0), RInt(0)>>,
   <<RInt(-1), RInt(60)>>, <<RInt(40), RInt(101)>>}

AnalyzeRequests ==
  {[stock |-> q, stocks |-> <<>>, tech_weight |-> w[1], fund_weight |-> w[2],
    save_result |-> sv] : q \in Queries, w \in WeightInputs, sv \in BOOLEAN}

StocksInputs ==
  {<<>>, <<"005930">>, <<"SAMSUNG", "005930">>, <<"005930", "005930">>,
   [i \in 1..(BatchLimit + 1) |-> "005930"]}

BatchRequests ==
  {[stock |-> "", stocks |-> qs, tech_weight |-> w[1], fund_weight |-> w[2],
    save_result |-> FALSE] : qs \in StocksInputs, w \in WeightInputs}

NoRequest ==
  [stock |-> "", stocks |-> <<>>, tech_weight |-> RInt(0), fund_weight |-> RInt(0),
   save_result |-> FALSE]

\* what the item pages can show
EmptyPage == StockData
NamePage == [StockData EXCEPT !.name = "SAMSUNG"]
PricePage == [StockData EXCEPT !.current_price = RInt(100)]
StrongPage ==
  [StockData EXCEPT !.name = "SAMSUNG", !.current_price = RInt(60),
     !.prev_close = RInt(50), !.volume = 4000, !.market_cap = RInt(4000000),
     !.high_52w = RInt(120), !.low_52w = RInt(50), !.per = RInt(8),
     !.pbr = Rat(1, 2), !.roe = RInt(20), !.foreign_ratio = RInt(50)]
WeakPage ==
  [StockData EXCEPT !.name = "HYNIX", !.current_price = RInt(110),
     !.volume = 100, !.market_cap = RInt(2000),
     !.high_52w = RInt(120), !.low_52w = RInt(50), !.per = RInt(40),
     !.pbr = RInt(3), !.roe = RInt(5), !.foreign_ratio = RInt(5)]

\* chart items <<close, volume>>, in the order the chart lists them
Items(n, first, step) == [i \in 1..n |-> <<first + step * (i - 1), 1000>>]
ItemsInputs == {<<>>, Items(19, 100, 0), Items(20, 119, -1), Items(20, 81, 2)}

\* the site: the code the search finds for a name (none: ""), the item page
\* and the chart
SiteInputs ==
  {[search |-> c, page |-> p, items |-> <<>>] :
     c \in {"", "000660"}, p \in {EmptyPage, NamePage}}
  \cup {[search |-> "000660", page |-> p, items |-> it] :
          p \in {PricePage, StrongPage, WeakPage}, it \in ItemsInputs}
  \cup {[search |-> "000660", page |-> StrongPage, items |-> Items(26, 100, 1)]}

\* no page fetched yet
NoSite == [search |-> "", page |-> StockData, items |-> <<>>]

StoreInputs == {"ok", "empty", "error"}

\* the /api/analyze requests served concurrently
Handlers == {1, 2}

\* a request not yet accepted: no analyzer (its weights dictionary is
\* dicts[analyzer]), no response
NoHandler ==
  [pc |-> "idle", request |-> NoRequest, analyzer |-> 0, site |-> NoSite,
   technical |-> FloatOfInt(0), fundamental |-> FloatOfInt(0),
   result |-> NoResult, response |-> NoResponse]

(***************************************************************************)
(* Spec: the API server.                                                   *)
(***************************************************************************)
\* no request accepted yet
InitHandlers ==
  /\ request = NoRequest
  /\ weights = DEFAULT_WEIGHTS
  /\ site = NoSite
  /\ now = 0
  /\ result = NoResult
  /\ results = <<>>
  /\ errors = <<>>
  /\ response = NoResponse
  /\ sa_analysis_results = <<>>
  /\ dicts = <<DEFAULT_WEIGHTS>>
  /\ handlers = [p \in Handlers |-> NoHandler]
  /\ loop = 0
  /\ sa_watchlist = <<>>

Init ==
  /\ pc = "idle"
  /\ InitHandlers
  /\ stock = StockData
  /\ tech = TechnicalData
  /\ signals = <<>>
  /\ score = FloatOfInt(0)
  /\ recommendation = ""

\* the response to a request that ends here
Respond(r) ==
  /\ response' = r
  /\ pc' = "done"

\* analyzer = StockAnalyzer(); analyzer.set_weights(tech_weight, fund_weight)
\* the analyzer's weights when set_weights returns, or the response 500
\* when it raises
SetWeights(req, next) ==
  \E sw \in {set_weights(DEFAULT_WEIGHTS, FloatOfRat(req.tech_weight),
                         FloatOfRat(req.fund_weight))} :
    IF sw.raised
    THEN Respond(ErrorResponse(500)) /\ UNCHANGED weights
    ELSE weights' = sw.weights /\ pc' = next /\ UNCHANGED response

\* POST /api/analyze, up to the await of asyncio.to_thread
PostAnalyze ==
  /\ pc = "idle"
  /\ \E req \in AnalyzeRequests :
       /\ request' = req
       /\ IF ~ValidWeights(req)
          THEN Respond(ErrorResponse(422)) /\ UNCHANGED weights
          ELSE SetWeights(req, "analyze_thread")
  /\ UNCHANGED <<site, now, result, results, errors, sa_analysis_results, function_vars, concurrent_vars, sa_watchlist>>

\* analyzer.analyze(request.stock) in the worker thread
AnalyzeThread ==
  /\ pc = "analyze_thread"
  /\ \E s \in SiteInputs :
       /\ site' = s
       /\ result' = analyze(weights, request.stock, s, now)
  /\ now' = now + 1
  /\ pc' = "analyze_resume"
  /\ UNCHANGED <<request, weights, results, errors, response,
                 sa_analysis_results, function_vars, concurrent_vars, sa_watchlist>>

\* analyze_stock after the await: 500, 404, or the result, saved on request
AnalyzeRespond ==
  /\ pc = "analyze_resume"
  /\ IF result.outcome = "raised"
     THEN Respond(ErrorResponse(500)) /\ UNCHANGED sa_analysis_results
     ELSE IF result.outcome = "none"
     THEN Respond(ErrorResponse(404)) /\ UNCHANGED sa_analysis_results
     ELSE IF request.save_result
     THEN \E store \in StoreInputs :
            LET saved == save_analysis_result(result, store)
            IN  /\ sa_analysis_results' =
                     IF store = "ok"
                     THEN Append(sa_analysis_results, AnalysisRow(result))
                     ELSE sa_analysis_results
                /\ IF saved.raised
                   THEN Respond(ErrorResponse(500))
                   ELSE Respond([NoResponse EXCEPT !.status = 200,
                                   !.result = saved.result,
                                   !.saved = saved.success,
                                   !.save_error = saved.error])
     ELSE /\ Respond([NoResponse EXCEPT !.status = 200, !.result = result])
          /\ UNCHANGED sa_analysis_results
  /\ UNCHANGED <<request, weights, site, now, result, results, errors, function_vars, concurrent_vars, sa_watchlist>>

\* POST /api/analyze/batch, up to the first await
PostBatch ==
  /\ pc = "idle"
  /\ \E req \in BatchRequests :
       /\ request' = req
       /\ IF ~ValidWeights(req)
          THEN Respond(ErrorResponse(422)) /\ UNCHANGED weights
          ELSE IF Len(req.stocks) > BatchLimit \/ Len(req.stocks) = 0
          THEN Respond(ErrorResponse(400)) /\ UNCHANGED weights
          ELSE SetWeights(req, "batch_thread")
  /\ UNCHANGED <<site, now, result, results, errors, sa_analysis_results, function_vars, concurrent_vars, sa_watchlist>>

\* the stock the batch loop is at
BatchIndex == Len(results) + Len(errors) + 1

\* (an analyze that puts the default weights back when it returns)
BatchThread_resetting ==
  /\ pc = "batch_thread"
  /\ \E s \in SiteInputs :
       /\ site' = s
       /\ result' = analyze(weights, request.stocks[BatchIndex], s, now)
  /\ now' = now + 1
  /\ weights' = DEFAULT_WEIGHTS
  /\ pc' = "batch_resume"
  /\ UNCHANGED <<request, results, errors, response, sa_analysis_results,
                 function_vars, concurrent_vars, sa_watchlist>>

\* analyzer.analyze(stock) in the worker thread, for the loop's stock
BatchThread ==
  /\ pc = "batch_thread"
  /\ \E s \in SiteInputs :
       /\ site' = s
       /\ result' = analyze(weights, request.stocks[BatchIndex], s, now)
  /\ now' = now + 1
  /\ pc' = "batch_resume"
  /\ UNCHANGED <<request, weights, results, errors, response,
                 sa_analysis_results, function_vars, concurrent_vars, sa_watchlist>>

\* the loop body after the await, up to the await of asyncio.sleep
BatchResume ==
  /\ pc = "batch_resume"
  /\ IF result.outcome = "ok"
     THEN results' = Append(results, result) /\ UNCHANGED errors
     ELSE errors' = Append(errors, [stock |-> request.stocks[BatchIndex],
                                    exception |-> result.outcome = "raised"])
          /\ UNCHANGED results
  /\ pc' = IF BatchIndex = Len(request.stocks) THEN "batch_finish" ELSE "batch_thread"
  /\ UNCHANGED <<request, weights, site, now, result, response, sa_analysis_results,
                 function_vars, concurrent_vars, sa_watchlist>>

\* after the loop: sort, summary, response
BatchFinish ==
  /\ pc = "batch_finish"
  /\ \E sorted \in {SortDesc(results)} :
       /\ results' = sorted
       /\ Respond([NoResponse EXCEPT !.status = 200, !.count = Len(sorted),
                     !.results = sorted,
                     !.summary = BatchSummary(sorted, errors)])
  /\ UNCHANGED <<request, weights, site, now, result, errors, sa_analysis_results,
                 function_vars, concurrent_vars, sa_watchlist>>

Next ==
  \/ PostAnalyze
  \/ AnalyzeThread
  \/ AnalyzeRespond
  \/ PostBatch
  \/ BatchThread
  \/ BatchResume
  \/ BatchFinish

Spec == Init /\ [][Next]_vars

(***************************************************************************)
(* SpecConcurrent: two /api/analyze requests served at once.  The event    *)
(* loop runs one handler at a time from an await to the next (loop is the  *)
(* handler it is running, 0 for none); analyze runs in a worker thread,    *)
(* whose steps interleave with the event loop's and with the other         *)
(* threads'.  dicts are the weights dictionaries that exist: dicts[1] is   *)
(* the module's DEFAULT_WEIGHTS, and an analyzer's self.weights is an      *)
(* index into dicts.                                                       *)
(***************************************************************************)
ConcurrentWeights ==
  {<<RInt(40), RInt(60)>>, <<RInt(100), RInt(0)>>, <<RInt(1), RInt(2)>>,
   <<RInt(0), RInt(0)>>}

ConcurrentRequests ==
  {[NoRequest EXCEPT !.stock = "005930", !.tech_weight = w[1], !.fund_weight = w[2]] :
     w \in ConcurrentWeights}

ConcurrentSites ==
  {[search |-> "", page |-> StrongPage, items |-> Items(20, 119, -1)],
   [search |-> "", page |-> WeakPage, items |-> Items(20, 81, 2)]}

\* (an analyzer that takes the module's dictionary itself, without copy())
__init___shared(ds) == <<ds, 1>>

\* StockAnalyzer.__init__ without weights: self.weights = DEFAULT_WEIGHTS.copy();
\* <<the dictionaries afterwards, the one self.weights is>>
__init__(ds) == <<Append(ds, ds[1]), Len(ds) + 1>>

InitConcurrent ==
  /\ pc = "concurrent"
  /\ InitHandlers
  /\ stock = StockData
  /\ tech = TechnicalData
  /\ signals = <<>>
  /\ score = FloatOfInt(0)
  /\ recommendation = ""

\* analyze_stock up to set_weights' first assignment: the analyzer is
\* constructed, and total = technical + fundamental is zero (the division
\* raises, the handler answers 500) or not
HandlerStart(p) ==
  /\ loop = 0
  /\ handlers[p].pc = "idle"
  /\ \E req \in ConcurrentRequests, s \in ConcurrentSites, made \in {__init__(dicts)} :
       /\ dicts' = made[1]
       /\ IF set_weights(made[1][made[2]], FloatOfRat(req.tech_weight),
                         FloatOfRat(req.fund_weight)).raised
          THEN /\ handlers' = [handlers EXCEPT ![p].request = req, ![p].site = s,
                                 ![p].analyzer = made[2], ![p].pc = "done",
                                 ![p].response = ErrorResponse(500)]
               /\ UNCHANGED loop
          ELSE /\ handlers' = [handlers EXCEPT ![p].request = req, ![p].site = s,
                                 ![p].analyzer = made[2], ![p].pc = "set_technical"]
               /\ loop' = p
  /\ UNCHANGED <<pc, request, weights, site, now, result, results, errors, response,
                 sa_analysis_results, sa_watchlist, function_vars>>

\* what set_weights assigns for the handler's request
Assigned(p) ==
  set_weights(dicts[handlers[p].analyzer], FloatOfRat(handlers[p].request.tech_weight),
              FloatOfRat(handlers[p].request.fund_weight)).weights

\* self.weights["technical"] = technical / total
SetTechnical(p) ==
  /\ loop = p
  /\ handlers[p].pc = "set_technical"
  /\ dicts' = [dicts EXCEPT ![handlers[p].analyzer].technical = Assigned(p).technical]
  /\ handlers' = [handlers EXCEPT ![p].pc = "set_fundamental"]
  /\ UNCHANGED <<pc, request, weights, site, now, result, results, errors, response,
                 sa_analysis_results, sa_watchlist, function_vars, loop>>

\* self.weights["fundamental"] = fundamental / total, then the await of
\* asyncio.to_thread
SetFundamental(p) ==
  /\ loop = p
  /\ handlers[p].pc = "set_fundamental"
  /\ dicts' = [dicts EXCEPT ![handlers[p].analyzer].fundamental = Assigned(p).fundamental]
  /\ handlers' = [handlers EXCEPT ![p].pc = "read_technical"]
  /\ loop' = 0
  /\ UNCHANGED <<pc, request, weights, site, now, result, results, errors, response,
                 sa_analysis_results, sa_watchlist, function_vars>>

\* the worker thread in analyze: self.weights["technical"] is read
ReadTechnical(p) ==
  /\ handlers[p].pc = "read_technical"
  /\ handlers' = [handlers EXCEPT ![p].technical = dicts[handlers[p].analyzer].technical,
                                  ![p].pc = "read_fundamental"]
  /\ UNCHANGED <<pc, request, weights, site, now, result, results, errors, response,
                 sa_analysis_results, sa_watchlist, function_vars, dicts, loop>>

\* the worker thread in analyze: self.weights["fundamental"] is read
ReadFundamental(p) ==
  /\ handlers[p].pc = "read_fundamental"
  /\ handlers' = [handlers EXCEPT ![p].fundamental = dicts[handlers[p].analyzer].fundamental,
                                  ![p].pc = "copy_weights"]
  /\ UNCHANGED <<pc, request, weights, site, now, result, results, errors, response,
                 sa_analysis_results, sa_watchlist, function_vars, dicts, loop>>

\* the worker thread in analyze: the result dictionary is built, with the
\* total of the weights read and with self.weights.copy()
CopyWeights(p) ==
  /\ handlers[p].pc = "copy_weights"
  /\ \E r \in {analyze([technical |-> handlers[p].technical,
                        fundamental |-> handlers[p].fundamental],
                       handlers[p].request.stock, handlers[p].site, now)} :
       handlers' = [handlers EXCEPT ![p].pc = "resume",
                      ![p].result = IF r.outcome = "ok"
                                    THEN [r EXCEPT !.weights = dicts[handlers[p].analyzer]]
                                    ELSE r]
  /\ now' = now + 1
  /\ UNCHANGED <<pc, request, weights, site, result, results, errors, response,
                 sa_analysis_results, sa_watchlist, function_vars, dicts, loop>>

\* analyze_stock after the await
HandlerResume(p) ==
  /\ loop = 0
  /\ handlers[p].pc = "resume"
  /\ handlers' = [handlers EXCEPT ![p].pc = "done",
                    ![p].response =
                      IF handlers[p].result.outcome = "raised" THEN ErrorResponse(500)
                      ELSE IF handlers[p].result.outcome = "none" THEN ErrorResponse(404)
                      ELSE [NoResponse EXCEPT !.status = 200,
                                              !.result = handlers[p].result]]
  /\ UNCHANGED <<pc, request, weights, site, now, result, results, errors, response,
                 sa_analysis_results, sa_watchlist, function_vars, dicts, loop>>

NextConcurrent ==
  \E p \in Handlers :
    \/ HandlerStart(p)
    \/ SetTechnical(p)
    \/ SetFundamental(p)
    \/ ReadTechnical(p)
    \/ ReadFundamental(p)
    \/ CopyWeights(p)
    \/ HandlerResume(p)

SpecConcurrent == InitConcurrent /\ [][NextConcurrent]_vars

(***************************************************************************)
(* SpecWatch: the watchlist.  sa_watchlist is the table, a row per entry   *)
(* in insertion order; None is written 0 for a number and "" for a string  *)
(* (the add turns 0 and "" into None itself, and the updates of the model  *)
(* are neither).  A handler runs from the request to the response without  *)
(* an await.  request is the request with what the store does with it:     *)
(* "ok" (the statement is applied and its rows come back), "empty" (no row *)
(* comes back and none is stored), "error" (the client raises; nothing is  *)
(* applied).                                                               *)
(***************************************************************************)
WatchCodes == {"005930", "000660"}

\* WatchlistAddRequest
WatchlistAddRequests ==
  {[op |-> "add", stock_code |-> c, stock_name |-> n, market |-> "", buy_price |-> bp,
    buy_quantity |-> 0, buy_date |-> "", memo |-> "", store |-> st] :
     c \in WatchCodes, n \in {"SAMSUNG", "HYNIX"}, bp \in {0, 70000}, st \in StoreInputs}

\* stock_code and WatchlistUpdateRequest
WatchlistUpdateRequests ==
  {[op |-> "update", stock_code |-> c, stock_name |-> "", market |-> "", buy_price |-> bp,
    buy_quantity |-> 0, buy_date |-> "", memo |-> mm, store |-> st] :
     c \in WatchCodes, bp \in {0, 80000}, mm \in {"", "sold"}, st \in {"ok", "error"}}

\* stock_code of DELETE /api/watchlist/{stock_code} and of the check
WatchlistCodeRequests(op) ==
  {[op |-> op, stock_code |-> c, stock_name |-> "", market |-> "", buy_price |-> 0,
    buy_quantity |-> 0, buy_date |-> "", memo |-> "", store |-> st] :
     c \in WatchCodes, st \in {"ok", "error"}}

\* the row add_to_watchlist sends
WatchlistData(req) ==
  [stock_code |-> req.stock_code, stock_name |-> req.stock_name, market |-> req.market,
   buy_price |-> req.buy_price, buy_quantity |-> req.buy_quantity,
   buy_date |-> req.buy_date, memo |-> req.memo]

\* no row
NoData ==
  [stock_code |-> "", stock_name |-> "", market |-> "", buy_price |-> 0,
   buy_quantity |-> 0, buy_date |-> "", memo |-> ""]

\* .eq("stock_code", stock_code): the positions of the rows selected
Eq(table, stock_code) == {i \in 1..Len(table) : table[i].stock_code = stock_code}

\* (an insert where the upsert is)
Upsert_insert(table, data) == Append(table, data)

\* .upsert(data, on_conflict="stock_code")
Upsert(table, data) ==
  IF Eq(table, data.stock_code) = {} THEN Append(table, data)
  ELSE [i \in 1..Len(table) |-> IF i \in Eq(table, data.stock_code) THEN data ELSE table[i]]

\* .update(updates).eq("stock_code", stock_code), updates without its None
Update(table, stock_code, updates) ==
  [i \in 1..Len(table) |->
     IF i \in Eq(table, stock_code)
     THEN [table[i] EXCEPT
             !.buy_price = IF updates.buy_price # 0 THEN updates.buy_price ELSE @,
             !.buy_quantity = IF updates.buy_quantity # 0 THEN updates.buy_quantity ELSE @,
             !.buy_date = IF updates.buy_date # "" THEN updates.buy_date ELSE @,
             !.memo = IF updates.memo # "" THEN updates.memo ELSE @]
     ELSE table[i]]

\* .delete().eq("stock_code", stock_code)
Delete(table, stock_code) ==
  Val(Tuple(table), LAMBDA t :
    Loop(LAMBDA acc, i : IF t[i].stock_code = stock_code THEN acc ELSE Append(acc, t[i]),
         <<>>, 1, Len(t)))

\* SupabaseService.add_to_watchlist: the table afterwards and (success, data, error)
add_to_watchlist(table, req, store) ==
  CASE store = "ok" ->
         [table |-> Upsert(table, WatchlistData(req)), success |-> TRUE,
          data |-> WatchlistData(req), error |-> "None"]
    [] store = "empty" ->
         [table |-> table, success |-> FALSE, data |-> NoData, error |-> "no response"]
    [] store = "error" ->
         [table |-> table, success |-> FALSE, data |-> NoData, error |-> "exception"]

\* SupabaseService.update_watchlist_item: the table afterwards and the row
\* returned (found: not None)
update_watchlist_item(table, stock_code, updates, store) ==
  IF store = "ok" /\ Eq(table, stock_code) # {}
  THEN Val(Update(table, stock_code, updates), LAMBDA t :
         [table |-> t, found |-> TRUE, data |-> t[CHOOSE i \in Eq(t, stock_code) : TRUE]])
  ELSE [table |-> table, found |-> FALSE, data |-> NoData]

\* SupabaseService.remove_from_watchlist: the table afterwards and the bool
remove_from_watchlist(table, stock_code, store) ==
  IF store = "ok" THEN [table |-> Delete(table, stock_code), success |-> TRUE]
  ELSE [table |-> table, success |-> FALSE]

\* SupabaseService.is_in_watchlist
is_in_watchlist(table, stock_code, store) ==
  IF store = "ok" THEN Cardinality(Eq(table, stock_code)) > 0 ELSE FALSE

\* what a watchlist handler answers
WatchlistResponse(status, data, is_in) ==
  [status |-> status, data |-> data, is_in_watchlist |-> is_in]

InitWatch ==
  /\ pc = "watchlist"
  /\ InitHandlers
  /\ stock = StockData
  /\ tech = TechnicalData
  /\ signals = <<>>
  /\ score = FloatOfInt(0)
  /\ recommendation = ""

\* POST /api/watchlist
PostWatchlist ==
  /\ \E req \in WatchlistAddRequests :
       \E added \in {add_to_watchlist(sa_watchlist, req, req.store)} :
         /\ request' = req
         /\ sa_watchlist' = added.table
         /\ response' = IF added.success THEN WatchlistResponse(200, added.data, FALSE)
                        ELSE WatchlistResponse(500, NoData, FALSE)
  /\ UNCHANGED <<pc, weights, site, now, result, results, errors, sa_analysis_results,
                 function_vars, concurrent_vars>>

\* PUT /api/watchlist/{stock_code}
PutWatchlist ==
  /\ \E req \in WatchlistUpdateRequests :
       /\ request' = req
       /\ IF req.buy_price = 0 /\ req.memo = ""
          THEN /\ response' = WatchlistResponse(400, NoData, FALSE)
               /\ UNCHANGED sa_watchlist
          ELSE \E updated \in {update_watchlist_item(sa_watchlist, req.stock_code,
                                                     WatchlistData(req), req.store)} :
                 /\ sa_watchlist' = updated.table
                 /\ response' = IF updated.found
                                THEN WatchlistResponse(200, updated.data, FALSE)
                                ELSE WatchlistResponse(404, NoData, FALSE)
  /\ UNCHANGED <<pc, weights, site, now, result, results, errors, sa_analysis_results,
                 function_vars, concurrent_vars>>

\* DELETE /api/watchlist/{stock_code}
DeleteWatchlist ==
  /\ \E req \in WatchlistCodeRequests("remove") :
       \E removed \in {remove_from_watchlist(sa_watchlist, req.stock_code, req.store)} :
         /\ request' = req
         /\ sa_watchlist' = removed.table
         /\ response' = WatchlistResponse(IF removed.success THEN 200 ELSE 500, NoData, FALSE)
  /\ UNCHANGED <<pc, weights, site, now, result, results, errors, sa_analysis_results,
                 function_vars, concurrent_vars>>

\* GET /api/watchlist/{stock_code}/check
CheckWatchlist ==
  /\ \E req \in WatchlistCodeRequests("check") :
       /\ request' = req
       /\ response' = WatchlistResponse(200, NoData,
                        is_in_watchlist(sa_watchlist, req.stock_code, req.store))
  /\ UNCHANGED <<pc, weights, site, now, result, results, errors, sa_analysis_results,
                 function_vars, concurrent_vars, sa_watchlist>>

NextWatch ==
  \/ PostWatchlist
  \/ PutWatchlist
  \/ DeleteWatchlist
  \/ CheckWatchlist

SpecWatch == InitWatch /\ [][NextWatch]_vars

(***************************************************************************)
(* SpecScore: _calculate_score and _get_recommendation called on their     *)
(* own, on every list of at most MaxSignals signals and on a grid of       *)
(* scores (steps of 1 / ScoreSteps, and the thousandths next to the        *)
(* thresholds).                                                            *)
(***************************************************************************)
MaxSignals == 6
ScoreSteps == 4

Sentiments == {"bullish", "neutral", "bearish"}
SignalInputs ==
  UNION {[1..n -> {Signal("RSI", "value", x) : x \in Sentiments}] : n \in 0..MaxSignals}

Thresholds == {30, 45, 60, 75}
BoundaryScores ==
  {FloatOfRat(Rat(1000 * t + d, 1000)) : t \in Thresholds, d \in {-1, 0, 1}}
ScoreInputs ==
  {FloatOfRat(Rat(k, ScoreSteps)) : k \in 0..(100 * ScoreSteps)} \cup BoundaryScores

InitScore ==
  /\ InitHandlers
  /\ stock = StockData
  /\ tech = TechnicalData
  /\ recommendation = ""
  /\ \/ pc = "score_call" /\ signals \in SignalInputs /\ score = FloatOfInt(0)
     \/ pc = "recommend_call" /\ signals = <<>> /\ score \in ScoreInputs

\* score = self._calculate_score(signals)
CalculateScore ==
  /\ pc = "score_call"
  /\ score' = _calculate_score(signals)
  /\ pc' = "score_return"
  /\ UNCHANGED <<handler_vars, stock, tech, signals, recommendation>>

\* recommendation, emoji = self._get_recommendation(score)
GetRecommendation ==
  /\ pc \in {"score_return", "recommend_call"}
  /\ recommendation' = _get_recommendation(score)[1]
  /\ pc' = "recommend_return"
  /\ UNCHANGED <<handler_vars, stock, tech, signals, score>>

NextScore ==
  \/ CalculateScore
  \/ GetRecommendation

SpecScore == InitScore /\ [][NextScore]_vars

(***************************************************************************)
(* Properties of the API server (Spec).                                    *)
(***************************************************************************)
\* set_weights has returned for the request
WeightsSet ==
  pc \in {"analyze_thread", "analyze_resume", "batch_thread", "batch_resume",
          "batch_finish"}

\* the smaller and the larger of two floats
FMin(x, y) == IF FLe(x, y) THEN x ELSE y
FMax(x, y) == IF FLe(x, y) THEN y ELSE x

\* C3 as stated: the total score of a result is technical_score * wTech +
\* fundamental_score * wFund under the analyzer's weights, and lies between
\* the smaller and the larger of the two scores (hence in [0, 100]).
C3_Convex ==
  WeightsSet /\ result.outcome = "ok" =>
    /\ result.total_score =
         FAdd(FMul(result.technical_score, weights.technical),
              FMul(result.fundamental_score, weights.fundamental))
    /\ FLe(FMin(result.technical_score, result.fundamental_score), result.total_score)
    /\ FLe(result.total_score, FMax(result.technical_score, result.fundamental_score))
    /\ FLe(result.total_score, FloatOfInt(100))

\* C4 as stated: after set_weights(t, f), t and f not negative and not both
\* zero, the stored weights are t / (t + f) and f / (t + f), each in [0, 1],
\* they sum to 1, and they are the weights of the total score and of the
\* result's weights entry.
C4_Normalized ==
  WeightsSet =>
    /\ weights.technical =
         FDiv(FloatOfRat(request.tech_weight),
              FAdd(FloatOfRat(request.tech_weight), FloatOfRat(request.fund_weight)))
    /\ weights.fundamental =
         FDiv(FloatOfRat(request.fund_weight),
              FAdd(FloatOfRat(request.tech_weight), FloatOfRat(request.fund_weight)))
    /\ FLe(weights.technical, FloatOfInt(1)) /\ FLe(weights.fundamental, FloatOfInt(1))
    /\ FAdd(weights.technical, weights.fundamental) = FloatOfInt(1)
    /\ result.outcome = "ok" =>
         /\ result.weights = weights
         /\ result.total_score =
              FAdd(FMul(result.technical_score, weights.technical),
                   FMul(result.fundamental_score, weights.fundamental))

\* the request carries a negative weight, or two zero weights
InvalidWeights(req) ==
  \/ RLt(req.tech_weight, RInt(0))
  \/ RLt(req.fund_weight, RInt(0))
  \/ RIsZero(req.tech_weight) /\ RIsZero(req.fund_weight)

\* C5 as stated: a request with an invalid weight pair is rejected by the
\* validation of the request, before set_weights runs (so set_weights never
\* divides by a zero total); a 0/100 split is accepted and gives the weights
\* (0, 1).
C5_InvalidRejected ==
  /\ request # NoRequest /\ InvalidWeights(request) =>
       pc = "done" /\ response.status \in {400, 422}
  /\ WeightsSet /\ RIsZero(request.tech_weight) /\ request.fund_weight = RInt(100) =>
       weights = [technical |-> FloatOfInt(0), fundamental |-> FloatOfInt(1)]

\* analyze has returned for the request of /api/analyze
Analyzed ==
  /\ request.stock # ""
  /\ pc = "analyze_resume" \/ (pc = "done" /\ response.status \in {200, 404})

\* the page has neither a name nor a price
NoUsablePrice(page) == page.name = "" /\ RIsZero(page.current_price)

\* C6: for a resolved code, analyze returns None when the snapshot has no
\* usable price (current price 0 and name empty), which /api/analyze reports
\* as 404 without any score; for every other snapshot it returns a scored
\* result, without raising, which /api/analyze reports as 200.
C6_NoPriceIsNone ==
  Analyzed /\ (IF IsSixDigits(request.stock) THEN request.stock ELSE site.search) # "" =>
    IF NoUsablePrice(site.page)
    THEN /\ result = NoResult
         /\ pc = "done" => response.status = 404 /\ response.result = NoResult
    ELSE /\ result.outcome = "ok"
         /\ result.recommendation # ""
         /\ pc = "done" => response.status = 200 /\ response.result = result

\* /api/analyze has answered 404 for a code whose page shows neither a name
\* nor a price
C6_Witness ==
  /\ pc = "done"
  /\ request.stock = "005930"
  /\ NoUsablePrice(site.page)
  /\ response.status = 404

(***************************************************************************)
(* SpecTech: calculate_all and _analyze_technical called on their own.     *)
(* Either calculate_all runs on a series of closes (tech holds the         *)
(* arguments prices and volumes, then the bundle returned) and             *)
(* _analyze_technical on its bundle, or _analyze_technical runs on an      *)
(* arbitrary bundle; or one of _calculate_rsi, _calculate_macd and         *)
(* _calculate_stochastic runs on a series of closes (tech holds the        *)
(* argument prices, then the value returned in the indicator's field).     *)
(***************************************************************************)
MaxLen == 121

\* the lengths around the thresholds of the calculator, up to MaxLen
LenInputs ==
  {n \in 0..MaxLen : n <= 6 \/ n \in 13..27 \/ n \in {59, 60, 119, 120} \/ n = MaxLen}

\* closes: flat, rising, alternating, falling, sawtooth
SeriesInputs ==
  UNION {{[i \in 1..n |-> 100], [i \in 1..n |-> 100 + i], [i \in 1..n |-> 100 + 3 * (i % 2)],
          [i \in 1..n |-> 300 - i], [i \in 1..n |-> 100 + ((3 * i) % 5)]} :
           n \in LenInputs}

PriceInputs == {RInt(0), RInt(100)}

\* stock.volume, around the thresholds of the volume rule for an average of 1000
VolumeInputs == {0, 400, 500, 1500, 1600, 3000, 3100}

BundleInputs ==
  {[TechnicalData EXCEPT !.ma5 = RInt(ma[1]), !.ma20 = RInt(ma[2]), !.ma60 = RInt(ma[3]),
      !.rsi_14 = RInt(rsi), !.macd = BigOfRat(macd[1]), !.macd_signal = BigOfRat(macd[2]),
      !.stochastic_k = RInt(k), !.bb_middle = RInt(ma[2]),
      !.bb_upper = SurdOfRat(RInt(bb[1])), !.bb_lower = SurdOfRat(RInt(bb[2])),
      !.volume_ma20 = RInt(vol)] :
     ma \in {<<0, 0, 0>>, <<110, 100, 90>>, <<90, 100, 110>>, <<100, 100, 0>>,
             <<100, 110, 90>>, <<0, 100, 90>>},
     rsi \in {20, 50, 80},
     macd \in {<<RInt(0), RInt(0)>>, <<RInt(1), Rat(4, 5)>>, <<RInt(-1), Rat(-4, 5)>>,
               <<RInt(1), RInt(2)>>},
     k \in {10, 50},
     bb \in {<<0, 0>>, <<120, 80>>},
     vol \in {0, 1000}}

InitTech ==
  /\ InitHandlers
  /\ signals = <<>>
  /\ score = FloatOfInt(0)
  /\ recommendation = ""
  /\ \/ /\ pc = "calc_call"
        /\ \E price \in PriceInputs :
             stock = [StockData EXCEPT !.name = "SAMSUNG", !.current_price = price,
                                       !.volume = 2000]
        /\ \E prices \in SeriesInputs :
             tech = [TechnicalData EXCEPT !.prices = prices,
                                          !.volumes = [i \in 1..Len(prices) |-> 900 + 10 * i]]
     \/ /\ pc = "tech_call"
        /\ \E price \in PriceInputs, volume \in VolumeInputs :
             stock = [StockData EXCEPT !.name = "SAMSUNG", !.current_price = price,
                                       !.volume = volume]
        /\ tech \in BundleInputs
     \/ /\ pc \in {"rsi_call", "macd_call", "stochastic_call"}
        /\ stock = [StockData EXCEPT !.name = "SAMSUNG", !.current_price = RInt(100),
                                     !.volume = 2000]
        /\ \E prices \in SeriesInputs :
             tech = [TechnicalData EXCEPT !.prices = prices,
                                          !.volumes = [i \in 1..Len(prices) |-> 900 + 10 * i]]

\* tech = TechnicalCalculator.calculate_all(prices, volumes, stock.current_price)
CalculateAll ==
  /\ pc = "calc_call"
  /\ tech' = calculate_all(tech.prices, tech.volumes, stock.current_price)
  /\ pc' = "calc_return"
  /\ UNCHANGED <<handler_vars, stock, signals, score, recommendation>>

\* tech_signals = self._analyze_technical(stock, tech)
AnalyzeTechnical ==
  /\ pc \in {"calc_return", "tech_call"}
  /\ \E r \in {_analyze_technical(stock, tech)} :
       /\ signals' = r.signals
       /\ pc' = IF r.raised THEN "raised"
                ELSE IF pc = "calc_return" THEN "calc_tech_return"
                ELSE "tech_return"
  /\ UNCHANGED <<handler_vars, stock, tech, score, recommendation>>

\* TechnicalCalculator._calculate_rsi(prices_arr, 14)
CalculateRsi ==
  /\ pc = "rsi_call"
  /\ tech' = [tech EXCEPT !.rsi_14 = _calculate_rsi(tech.prices, 14)]
  /\ pc' = "rsi_return"
  /\ UNCHANGED <<handler_vars, stock, signals, score, recommendation>>

\* TechnicalCalculator._calculate_macd(prices_arr)
CalculateMacd ==
  /\ pc = "macd_call"
  /\ \E r \in {_calculate_macd(tech.prices)} :
       tech' = [tech EXCEPT !.macd = r[1], !.macd_signal = r[2]]
  /\ pc' = "macd_return"
  /\ UNCHANGED <<handler_vars, stock, signals, score, recommendation>>

\* TechnicalCalculator._calculate_stochastic(prices_arr, 14)
CalculateStochastic ==
  /\ pc = "stochastic_call"
  /\ tech' = [tech EXCEPT !.stochastic_k = _calculate_stochastic(tech.prices, 14)]
  /\ pc' = "stochastic_return"
  /\ UNCHANGED <<handler_vars, stock, signals, score, recommendation>>

NextTech ==
  \/ CalculateAll
  \/ AnalyzeTechnical
  \/ CalculateRsi
  \/ CalculateMacd
  \/ CalculateStochastic

SpecTech == InitTech /\ [][NextTech]_vars

(***************************************************************************)
(* SpecFund: _analyze_fundamental called on its own on a snapshot, then    *)
(* _calculate_score on the list it returns.  The snapshots take their      *)
(* fields around the thresholds of the rules; market_cap is in units of    *)
(* 100,000,000 won.                                                         *)
(***************************************************************************)
\* <<high_52w, low_52w, current_price>>
Range52wInputs ==
  {<<0, 0, 100>>, <<200, 100, 0>>, <<200, 0, 150>>, <<0, 100, 150>>,
   <<200, 100, 195>>, <<200, 100, 190>>, <<200, 100, 180>>, <<200, 100, 170>>,
   <<200, 100, 130>>, <<200, 100, 120>>, <<200, 100, 80>>, <<200, 100, 250>>,
   <<100, 100, 100>>, <<100, 200, 150>>, <<100, 200, 250>>, <<100, 120, 120>>}

\* market caps on and next to the thresholds of the market-cap rule (3000.5
\* is a cap that is not a whole number of units)
CapInputs ==
  {RInt(0), RInt(1), RInt(3000), Rat(6001, 2), RInt(3001), RInt(10000), RInt(10001),
   RInt(100000), RInt(100001)}

SnapshotInputs ==
  {[StockData EXCEPT !.name = "SAMSUNG", !.current_price = RInt(100), !.market_cap = cap] :
     cap \in CapInputs}
  \cup
  {[StockData EXCEPT !.name = "SAMSUNG", !.per = per, !.pbr = pbr, !.roe = roe,
      !.foreign_ratio = foreign, !.market_cap = cap,
      !.high_52w = RInt(range[1]), !.low_52w = RInt(range[2]),
      !.current_price = RInt(range[3])] :
     per \in {RInt(0), RInt(8), RInt(10), RInt(30)},
     pbr \in {RInt(0), Rat(8, 10), RInt(2)},
     roe \in {RInt(0), RInt(15), RInt(18)},
     foreign \in {RInt(0), RInt(30), RInt(35)},
     cap \in {RInt(0), RInt(100000), RInt(100001)},
     range \in Range52wInputs}

InitFund ==
  /\ InitHandlers
  /\ pc = "fund_call"
  /\ stock \in SnapshotInputs
  /\ tech = TechnicalData
  /\ signals = <<>>
  /\ score = FloatOfInt(0)
  /\ recommendation = ""

\* fund_signals = self._analyze_fundamental(stock)
AnalyzeFundamental ==
  /\ pc = "fund_call"
  /\ \E r \in {_analyze_fundamental(stock)} :
       /\ signals' = r.signals
       /\ pc' = IF r.raised THEN "raised" ELSE "fund_return"
  /\ UNCHANGED <<handler_vars, stock, tech, score, recommendation>>

\* fund_score = self._calculate_score(fund_signals)
ScoreFundamental ==
  /\ pc = "fund_return"
  /\ score' = _calculate_score(signals)
  /\ pc' = "fund_score_return"
  /\ UNCHANGED <<handler_vars, stock, tech, signals, recommendation>>

NextFund ==
  \/ AnalyzeFundamental
  \/ ScoreFundamental

SpecFund == InitFund /\ [][NextFund]_vars

(***************************************************************************)
(* Properties of the scorer (SpecScore).                                   *)
(***************************************************************************)
\* the rank of a tier, worst first
TierRank(label) ==
  CASE label = "STRONG_SELL" -> 0
    [] label = "SELL" -> 1
    [] label = "HOLD" -> 2
    [] label = "BUY" -> 3
    [] label = "STRONG_BUY" -> 4

\* C1: _get_recommendation gives strong buy for score >= 75, buy for
\* 60 <= score < 75, hold for 45 <= score < 60, sell for 30 <= score < 45 and
\* strong sell below 30 (a score on a threshold is in the higher tier), and
\* no smaller score gets a better tier.
C1_Tiers ==
  pc = "recommend_return" =>
    /\ FGe(score, FloatOfInt(75)) => recommendation = "STRONG_BUY"
    /\ FGe(score, FloatOfInt(60)) /\ FLt(score, FloatOfInt(75)) => recommendation = "BUY"
    /\ FGe(score, FloatOfInt(45)) /\ FLt(score, FloatOfInt(60)) => recommendation = "HOLD"
    /\ FGe(score, FloatOfInt(30)) /\ FLt(score, FloatOfInt(45)) => recommendation = "SELL"
    /\ FLt(score, FloatOfInt(30)) => recommendation = "STRONG_SELL"
    /\ \A lower \in BoundaryScores :
         FLe(lower, score) =>
           TierRank(_get_recommendation(lower)[1]) <= TierRank(recommendation)

\* a score exactly on the threshold 75 has been classified, as strong buy
C1_Witness ==
  /\ pc = "recommend_return"
  /\ score = FloatOfInt(75)
  /\ recommendation = "STRONG_BUY"

\* the number of signals of a sentiment in a list
CountSentiment(sigs, x) == Cardinality({i \in 1..Len(sigs) : sigs[i].sentiment = x})

\* C2: _calculate_score returns the mean of the signals' values (bullish 100,
\* neutral 50, bearish 0; as a float, the one nearest to the mean), which is in
\* [0, 100]; exactly 50 for the empty list, exactly 100 for a non-empty list
\* of bullish signals and exactly 0 for a non-empty list of bearish signals.
C2_Mean ==
  pc = "score_return" =>
    /\ signals # <<>> =>
         score = FloatOfRat(Rat(100 * CountSentiment(signals, "bullish")
                                  + 50 * CountSentiment(signals, "neutral"),
                                Len(signals)))
    /\ FGe(score, FloatOfInt(0)) /\ FLe(score, FloatOfInt(100))
    /\ signals = <<>> => score = FloatOfInt(50)
    /\ signals # <<>> /\ CountSentiment(signals, "bullish") = Len(signals)
         => score = FloatOfInt(100)
    /\ signals # <<>> /\ CountSentiment(signals, "bearish") = Len(signals)
         => score = FloatOfInt(0)

\* a list of two bullish signals and a neutral one has been scored (250 / 3)
C2_Witness ==
  /\ pc = "score_return"
  /\ Len(signals) = 3
  /\ CountSentiment(signals, "bullish") = 2
  /\ CountSentiment(signals, "neutral") = 1
  /\ FGe(score, FloatOfInt(83)) /\ FLt(score, FloatOfInt(84))

(***************************************************************************)
(* Properties of the calculator and of the technical rules (SpecTech).     *)
(***************************************************************************)
\* the positions of the signals of an indicator in a list
SignalsOf(sigs, indicator) == {i \in 1..Len(sigs) : sigs[i].indicator = indicator}

\* C7 as stated: the list returned by _analyze_technical holds exactly one
\* MACD signal for every snapshot and bundle, bullish when macd > macd_signal
\* and bearish otherwise.
C7_AlwaysMacd ==
  pc \in {"tech_return", "calc_tech_return"} =>
    /\ Cardinality(SignalsOf(signals, "MACD")) = 1
    /\ \A i \in SignalsOf(signals, "MACD") :
         signals[i].sentiment =
           IF BigGt(tech.macd, tech.macd_signal) THEN "bullish" ELSE "bearish"

\* C7 amended: for a snapshot whose current price is not 0 the list holds
\* exactly one MACD signal, bullish when macd > macd_signal and bearish
\* otherwise; for a snapshot whose current price is 0 the list is empty.
C7_MacdUnlessNoPrice ==
  pc \in {"tech_return", "calc_tech_return"} =>
    IF RIsZero(stock.current_price) THEN signals = <<>>
    ELSE /\ Cardinality(SignalsOf(signals, "MACD")) = 1
         /\ \A i \in SignalsOf(signals, "MACD") :
              signals[i].sentiment =
                IF BigGt(tech.macd, tech.macd_signal) THEN "bullish" ELSE "bearish"

\* a bundle with macd = macd_signal and a priced snapshot have been analysed:
\* the MACD signal is there, bearish
C7_Witness ==
  /\ pc = "tech_return"
  /\ ~RIsZero(stock.current_price)
  /\ tech.macd = tech.macd_signal
  /\ \E i \in SignalsOf(signals, "MACD") : signals[i].sentiment = "bearish"

\* the bundle is the one returned by calculate_all
Calculated == pc \in {"calc_return", "calc_tech_return"}

\* C8: for a series of fewer than 20 closes calculate_all returns the
\* defaults: every moving average is the current price or 0, RSI and
\* stochastic are 50, MACD and its signal are 0, the Bollinger bands are 0 and
\* the volume average is 0.
C8_Defaults ==
  Calculated /\ Len(tech.prices) < 20 =>
    /\ \A ma \in {tech.ma5, tech.ma20, tech.ma60, tech.ma120} :
         ma = stock.current_price \/ ma = RInt(0)
    /\ tech.rsi_14 = RInt(50)
    /\ RGe(tech.rsi_14, RInt(0)) /\ RLe(tech.rsi_14, RInt(100))
    /\ tech.stochastic_k = RInt(50)
    /\ BigSign(tech.macd) = 0 /\ BigSign(tech.macd_signal) = 0
    /\ SurdSign(tech.bb_upper) = 0 /\ tech.bb_middle = RInt(0)
    /\ SurdSign(tech.bb_lower) = 0
    /\ tech.volume_ma20 = RInt(0)

\* calculate_all has returned for 19 rising closes and the current price 100
C8_Witness ==
  /\ pc = "calc_return"
  /\ Len(tech.prices) = 19
  /\ tech.prices[19] = 119
  /\ stock.current_price = RInt(100)
  /\ tech.rsi_14 = RInt(50)

\* the mean of the last n elements of a sequence of at least n integers
TrailingMean(s, n) == Rat(SumSeq([i \in 1..n |-> s[Len(s) - n + i]]), n)

\* MA_N of the bundle
MovingAverage(t, n) ==
  CASE n = 5 -> t.ma5 [] n = 20 -> t.ma20 [] n = 60 -> t.ma60 [] n = 120 -> t.ma120

\* C9 as stated: for N in {5, 20, 60, 120}, MA_N of the bundle returned by
\* calculate_all is the mean of the trailing N closes when the series has at
\* least N closes, and the current price when it has fewer.
C9_MeanOrPrice ==
  Calculated =>
    \A n \in {5, 20, 60, 120} :
      MovingAverage(tech, n) =
        IF Len(tech.prices) >= n THEN TrailingMean(tech.prices, n)
        ELSE stock.current_price

\* C9 amended: for a series of at least 20 closes, MA_N is the mean of the
\* trailing N closes when the series has at least N closes and the current
\* price when it has fewer; for a series of fewer than 20 closes every MA_N
\* is 0.
C9_MeanOrPriceFrom20 ==
  Calculated =>
    \A n \in {5, 20, 60, 120} :
      MovingAverage(tech, n) =
        IF Len(tech.prices) < 20 THEN RInt(0)
        ELSE IF Len(tech.prices) >= n THEN TrailingMean(tech.prices, n)
        ELSE stock.current_price

\* calculate_all has returned for 60 rising closes: MA60 is their mean and
\* MA120 the current price
C9_Witness ==
  /\ pc = "calc_return"
  /\ Len(tech.prices) = 60
  /\ tech.prices[60] = 160
  /\ stock.current_price = RInt(100)
  /\ tech.ma60 = Rat(261, 2)
  /\ tech.ma120 = RInt(100)

\* C10 as stated: for a series of fewer than 20 closes _analyze_technical
\* emits no signal of a rule whose indicator calculate_all left at its
\* default, and no bullish or bearish signal.
DefaultedRules ==
  {"MA_ALIGN", "MA20", "RSI", "MACD", "STOCHASTIC", "BOLLINGER", "VOLUME"}
C10_SkippedWithoutHistory ==
  pc = "calc_tech_return" /\ Len(tech.prices) < 20 =>
    \A i \in 1..Len(signals) :
      /\ signals[i].indicator \notin DefaultedRules
      /\ signals[i].sentiment = "neutral"

\* the one-step difference that ends at the j-th of the trailing 14 steps
TrailingDelta(s, j) == s[Len(s) - 14 + j] - s[Len(s) - 15 + j]

\* the mean over the trailing 14 steps of the rises, and of the falls' sizes
AvgGain(s) ==
  Rat(SumSeq([j \in 1..14 |-> IF TrailingDelta(s, j) > 0 THEN TrailingDelta(s, j) ELSE 0]), 14)
AvgLoss(s) ==
  Rat(SumSeq([j \in 1..14 |-> IF TrailingDelta(s, j) < 0 THEN -TrailingDelta(s, j) ELSE 0]), 14)

\* C11: for at least 15 closes _calculate_rsi returns 100 when the average
\* loss over the trailing 14 differences is 0 and otherwise
\* 100 - 100 / (1 + avgGain / avgLoss); the value is in [0, 100]; for fewer
\* than 15 closes it is 50.  (Also for the RSI calculate_all puts in the
\* bundle of a series of at least 20 closes.)
C11_Rsi ==
  pc = "rsi_return" \/ (Calculated /\ Len(tech.prices) >= 20) =>
    IF Len(tech.prices) < 15 THEN tech.rsi_14 = RInt(50)
    ELSE LET avgGain == AvgGain(tech.prices)
             avgLoss == AvgLoss(tech.prices)
         IN  /\ RIsZero(avgLoss) => tech.rsi_14 = RInt(100)
             /\ ~RIsZero(avgLoss) =>
                  tech.rsi_14 = RSub(RInt(100),
                                     RDiv(RInt(100), RAdd(RInt(1), RDiv(avgGain, avgLoss))))
             /\ RGe(tech.rsi_14, RInt(0)) /\ RLe(tech.rsi_14, RInt(100))

\* _calculate_rsi has returned for 27 sawtooth closes, whose trailing 14
\* steps hold rises and falls: RSI is 100 - 100 / (1 + (15/14) / (18/14))
C11_Witness ==
  /\ pc = "rsi_return"
  /\ Len(tech.prices) = 27
  /\ tech.prices[26] = 103 /\ tech.prices[27] = 101
  /\ ~RIsZero(AvgLoss(tech.prices)) /\ ~RIsZero(AvgGain(tech.prices))
  /\ tech.rsi_14 = Rat(500, 11)

\* an EMA(n) over a window w of at least n closes as C12 describes it: the
\* mean of the first n closes of w, smoothed with the multiplier 2 / (n + 1)
\* over the closes of w that follow
SeededEma(w, n) ==
  EmaLoop(BigOfRat(Mean(SubSeq(w, 1, n))), SubSeq(w, n + 1, Len(w)),
          BigOfRat(Rat(2, n + 1)), n)

\* the window of the series s that C12's EMA(n) runs over: its trailing n
\* closes ("trailing"), or the whole series fetched ("series")
EmaWindow(s, n, reading) ==
  IF reading = "trailing" THEN SubSeq(s, Len(s) - n + 1, Len(s)) ELSE s

\* C12 as stated: for a series of at least 26 closes the MACD line is
\* EMA(12) - EMA(26), each EMA(N) seeded with the mean of the first N closes
\* of its trailing window and smoothed over the closes that follow, with
\* the multiplier 2 / (N + 1) (under either reading of the window).
C12_SeededWithMean ==
  pc = "macd_return" /\ Len(tech.prices) >= 26 =>
    \E reading \in {"trailing", "series"} :
      BigSign(BigSub(tech.macd,
                     BigSub(SeededEma(EmaWindow(tech.prices, 12, reading), 12),
                            SeededEma(EmaWindow(tech.prices, 26, reading), 26)))) = 0

Window14(s) == {s[i] : i \in (Len(s) - 13)..Len(s)}
WindowHigh(s) == CHOOSE h \in Window14(s) : \A c \in Window14(s) : c <= h
WindowLow(s) == CHOOSE l \in Window14(s) : \A c \in Window14(s) : c >= l

\* C14: for at least 14 closes _calculate_stochastic returns
\* (lastClose - windowLow) / (windowHigh - windowLow) x 100 over the trailing
\* 14 closes, a value in [0, 100], and exactly 50 when the window's high
\* equals its low; for fewer than 14 closes it returns 50.  (Also for the
\* stochastic calculate_all puts in the bundle of at least 20 closes.)
C14_Stochastic ==
  pc = "stochastic_return" \/ (Calculated /\ Len(tech.prices) >= 20) =>
    IF Len(tech.prices) < 14 THEN tech.stochastic_k = RInt(50)
    ELSE LET high == WindowHigh(tech.prices)
             low == WindowLow(tech.prices)
             lastClose == tech.prices[Len(tech.prices)]
         IN  /\ high = low => tech.stochastic_k = RInt(50)
             /\ high # low =>
                  tech.stochastic_k = Rat((lastClose - low) * 100, high - low)
             /\ RGe(tech.stochastic_k, RInt(0)) /\ RLe(tech.stochastic_k, RInt(100))

\* _calculate_stochastic has returned for 16 sawtooth closes: the last
\* close 103 in a window from 100 to 104 gives 75
C14_Witness ==
  /\ pc = "stochastic_return"
  /\ Len(tech.prices) = 16
  /\ tech.prices[16] = 103
  /\ WindowLow(tech.prices) = 100 /\ WindowHigh(tech.prices) = 104
  /\ tech.stochastic_k = RInt(75)

\* the order of the technical rules
TechOrder == <<"MA_ALIGN", "MA20", "RSI", "MACD", "BOLLINGER", "STOCHASTIC", "VOLUME">>

\* sigs is a subsequence of the rules' order, no indicator twice: each signal
\* is of a rule later in the order than the signal before it
InOrder(sigs, order) ==
  /\ \A i \in 1..Len(sigs) : \E k \in 1..Len(order) : order[k] = sigs[i].indicator
  /\ \A i \in 1..(Len(sigs) - 1) :
       \E k, l \in 1..Len(order) :
         k < l /\ order[k] = sigs[i].indicator /\ order[l] = sigs[i + 1].indicator

\* the signals of sigs that are not of the indicators in skipped
Others(sigs, skipped) == SelectSeq(sigs, LAMBDA s : s.indicator \notin skipped)

\* bundles that differ from t in one field, set so that a rule is skipped,
\* each with the indicators of the rules that read the field
SkipVariants(t) ==
  {<<[t EXCEPT !.ma5 = RInt(0)], {"MA_ALIGN"}>>,
   <<[t EXCEPT !.ma20 = RInt(0)], {"MA_ALIGN", "MA20"}>>,
   <<[t EXCEPT !.bb_upper = SurdOfRat(RInt(0))], {"BOLLINGER"}>>,
   <<[t EXCEPT !.volume_ma20 = RInt(0)], {"VOLUME"}>>}

\* C15: the list _analyze_technical returns is a subsequence of [MA
\* alignment, price vs MA20, RSI, MACD, Bollinger, stochastic, volume] with
\* each indicator at most once, and making a rule skip (by zeroing the field
\* it is guarded by) leaves the signals of all the other rules as they are.
C15_FixedOrder ==
  pc \in {"tech_return", "calc_tech_return"} =>
    /\ InOrder(signals, TechOrder)
    /\ \A v \in SkipVariants(tech) :
         \E r \in {_analyze_technical(stock, v[1])} :
           /\ ~r.raised
           /\ Others(r.signals, v[2]) = Others(signals, v[2])
           /\ \A i \in 1..Len(r.signals) : r.signals[i].indicator \notin v[2]

\* a bundle whose seven rules all emit has been analysed: seven signals, from
\* MA alignment to volume
C15_Witness ==
  /\ pc = "tech_return"
  /\ Len(signals) = 7
  /\ signals[1].indicator = "MA_ALIGN" /\ signals[2].indicator = "MA20"
  /\ signals[4].indicator = "MACD" /\ signals[7].indicator = "VOLUME"
  /\ signals[1].sentiment = "bullish" /\ signals[7].sentiment = "bearish"

\* the closes rise strictly
Ascending(s) == \A i \in 1..(Len(s) - 1) : s[i] < s[i + 1]

FundOrder == <<"PER", "PBR", "ROE", "POS52W", "FOREIGN", "MARKETCAP">>

\* _analyze_fundamental has returned
FundAnalyzed == pc \in {"fund_return", "fund_score_return"}

\* C18: the list _analyze_fundamental returns is a subsequence of [PER, PBR,
\* ROE, 52-week position, foreign ownership, market cap] with each rule at
\* most once; a rule whose source field is 0 emits nothing; a snapshot with
\* every fundamental field at 0 gives the empty list, and the score 50.
C18_FundamentalOrder ==
  FundAnalyzed =>
    /\ InOrder(signals, FundOrder)
    /\ RIsZero(stock.per) => SignalsOf(signals, "PER") = {}
    /\ RIsZero(stock.pbr) => SignalsOf(signals, "PBR") = {}
    /\ RIsZero(stock.roe) => SignalsOf(signals, "ROE") = {}
    /\ RIsZero(stock.high_52w) \/ RIsZero(stock.low_52w)
         => SignalsOf(signals, "POS52W") = {}
    /\ RIsZero(stock.foreign_ratio) => SignalsOf(signals, "FOREIGN") = {}
    /\ RIsZero(stock.market_cap) => SignalsOf(signals, "MARKETCAP") = {}
    /\ RIsZero(stock.per) /\ RIsZero(stock.pbr) /\ RIsZero(stock.roe)
         /\ RIsZero(stock.high_52w) /\ RIsZero(stock.low_52w)
         /\ RIsZero(stock.foreign_ratio) /\ RIsZero(stock.market_cap) =>
         /\ signals = <<>>
         /\ pc = "fund_score_return" => score = FloatOfInt(50)

\* a priced snapshot with every fundamental field at 0 has been analysed and
\* scored: no signal, score 50
C18_Witness ==
  /\ pc = "fund_score_return"
  /\ stock = [StockData EXCEPT !.name = "SAMSUNG", !.current_price = RInt(100)]
  /\ signals = <<>>
  /\ score = FloatOfInt(50)

\* the snapshot of C19: 0 < PER < 10, 0 < PBR < 1, ROE > 15, foreign ratio >
\* 30, market cap above 100000 (x 100,000,000 won), no 52-week data
AllBullishSnapshot(s) ==
  /\ RGt(s.per, RInt(0)) /\ RLt(s.per, RInt(10))
  /\ RGt(s.pbr, RInt(0)) /\ RLt(s.pbr, RInt(1))
  /\ RGt(s.roe, RInt(15))
  /\ RGt(s.foreign_ratio, RInt(30))
  /\ RGt(s.market_cap, RInt(100000))
  /\ RIsZero(s.high_52w) \/ RIsZero(s.low_52w)

\* C19: for such a snapshot _analyze_fundamental returns exactly the five
\* signals of PER, PBR, ROE, foreign ownership and market cap, all bullish,
\* and their score is exactly 100.
C19_AllBullish ==
  FundAnalyzed /\ AllBullishSnapshot(stock) =>
    /\ Len(signals) = 5
    /\ [i \in 1..5 |-> signals[i].indicator] = <<"PER", "PBR", "ROE", "FOREIGN", "MARKETCAP">>
    /\ \A i \in 1..5 : signals[i].sentiment = "bullish"
    /\ pc = "fund_score_return" => score = FloatOfInt(100)

\* the snapshot PER 8, PBR 0.8, ROE 18, foreign ratio 35, market cap 100001
\* without 52-week data has been analysed and scored: 100
C19_Witness ==
  /\ pc = "fund_score_return"
  /\ stock.per = RInt(8) /\ stock.pbr = Rat(8, 10) /\ stock.roe = RInt(18)
  /\ stock.foreign_ratio = RInt(35) /\ stock.market_cap = RInt(100001)
  /\ RIsZero(stock.high_52w) /\ RIsZero(stock.low_52w)
  /\ Len(signals) = 5
  /\ score = FloatOfInt(100)

\* the denominator and the position of the 52-week rule for a snapshot
Range52w(s) ==
  RSub(IF RGt(s.current_price, s.high_52w) THEN s.current_price ELSE s.high_52w, s.low_52w)
Position52w(s) ==
  RMul(RDiv(RSub(s.current_price, s.low_52w), Range52w(s)), RInt(100))

\* C20: the 52-week rule emits nothing when high52, low52 or the current
\* price is 0 or when max(high52, current) - low52 is not positive (so it
\* never divides by zero); otherwise position = (current - low52) /
\* (max(high52, current) - low52) x 100 is at most 100 and the rule emits one
\* signal: neutral (near new high) for position > 90, bearish for 70 <
\* position <= 90, bullish for position < 30 (a negative position included),
\* neutral for 30 <= position <= 70.
C20_Position52w ==
  FundAnalyzed =>
    IF RIsZero(stock.high_52w) \/ RIsZero(stock.low_52w) \/ RIsZero(stock.current_price)
       \/ ~RGt(Range52w(stock), RInt(0))
    THEN SignalsOf(signals, "POS52W") = {}
    ELSE /\ RLe(Position52w(stock), RInt(100))
         /\ Cardinality(SignalsOf(signals, "POS52W")) = 1
         /\ \A i \in SignalsOf(signals, "POS52W") :
              <<signals[i].value, signals[i].sentiment>> =
                IF RGt(Position52w(stock), RInt(90)) THEN <<"near_new_high", "neutral">>
                ELSE IF RGt(Position52w(stock), RInt(70)) THEN <<"near_high", "bearish">>
                ELSE IF RLt(Position52w(stock), RInt(30)) THEN <<"near_low", "bullish">>
                ELSE <<"middle", "neutral">>

\* a snapshot priced 80 under its 52-week low 100 (high 200) has been
\* analysed: the position is -20 and the signal bullish
C20_Witness ==
  /\ pc = "fund_return"
  /\ stock.high_52w = RInt(200) /\ stock.low_52w = RInt(100)
  /\ stock.current_price = RInt(80)
  /\ Position52w(stock) = RInt(-20)
  /\ \E i \in SignalsOf(signals, "POS52W") :
       signals[i] = Signal("POS52W", "near_low", "bullish")

\* C21: the market-cap rule emits nothing for a cap of 0 and otherwise one
\* signal by the cap in units of 100,000,000 won: bullish (large) above
\* 100000, neutral (mid-large) above 10000, neutral (mid) above 3000, bearish
\* (small) otherwise; a cap on a threshold is in the lower tier.
C21_MarketCap ==
  FundAnalyzed =>
    IF RIsZero(stock.market_cap) THEN SignalsOf(signals, "MARKETCAP") = {}
    ELSE /\ Cardinality(SignalsOf(signals, "MARKETCAP")) = 1
         /\ \A i \in SignalsOf(signals, "MARKETCAP") :
              <<signals[i].value, signals[i].sentiment>> =
                IF RGt(stock.market_cap, RInt(100000)) THEN <<"large", "bullish">>
                ELSE IF RGt(stock.market_cap, RInt(10000)) THEN <<"mid_large", "neutral">>
                ELSE IF RGt(stock.market_cap, RInt(3000)) THEN <<"mid", "neutral">>
                ELSE <<"small", "bearish">>
         /\ stock.market_cap = RInt(100000) =>
              \A i \in SignalsOf(signals, "MARKETCAP") : signals[i].value = "mid_large"
         /\ stock.market_cap = RInt(10000) =>
              \A i \in SignalsOf(signals, "MARKETCAP") : signals[i].value = "mid"
         /\ stock.market_cap = RInt(3000) =>
              \A i \in SignalsOf(signals, "MARKETCAP") : signals[i].value = "small"

\* a cap of exactly 3000 units has been classified: small-cap, bearish
C21_Witness ==
  /\ pc = "fund_return"
  /\ stock.market_cap = RInt(3000)
  /\ signals = <<Signal("MARKETCAP", "small", "bearish")>>

(***************************************************************************)
(* C22: analysis is deterministic and leaves no trace.                     *)
(***************************************************************************)
\* the two result dictionaries agree in every entry but "date"
SameButDate(r1, r2) == [r1 EXCEPT !.date = 0] = [r2 EXCEPT !.date = 0]

\* the step is a call of analyze by the batch loop
AnalyzeCall == pc = "batch_thread" /\ pc' = "batch_resume"

\* the call repeats the call before it on the same analyzer: the same stock,
\* and the site answers what it answered then (result and site still hold
\* the earlier call's result and pages)
RepeatedCall ==
  /\ AnalyzeCall
  /\ BatchIndex > 1
  /\ request.stocks[BatchIndex] = request.stocks[BatchIndex - 1]
  /\ site' = site

Answered(p) == handlers[p].pc = "done" /\ handlers[p].response.status = 200

\* the weights set_weights makes of the request's own percentages
OwnWeights(p) ==
  set_weights(DEFAULT_WEIGHTS, FloatOfRat(handlers[p].request.tech_weight),
              FloatOfRat(handlers[p].request.fund_weight)).weights

\* C23: under every interleaving of two /api/analyze requests, the module's
\* DEFAULT_WEIGHTS stays as defined, the two analyzers hold different
\* dictionaries, neither of them the module's, and the weights and the
\* total_score of every 200 response are those of an analysis made with the
\* weights set_weights derives from that request's own percentages.
C23_NoSharedState ==
  /\ dicts[1] = DEFAULT_WEIGHTS
  /\ \A p \in Handlers : handlers[p].analyzer # 1
  /\ \A p, q \in Handlers :
       p # q /\ handlers[p].analyzer # 0 => handlers[p].analyzer # handlers[q].analyzer
  /\ \A p \in Handlers :
       Answered(p) =>
         /\ handlers[p].response.result.weights = OwnWeights(p)
         /\ handlers[p].response.result.total_score =
              analyze(OwnWeights(p), handlers[p].request.stock, handlers[p].site,
                      0).total_score

C23_Witness ==
  /\ Answered(1) /\ Answered(2)
  /\ handlers[1].site = handlers[2].site
  /\ handlers[1].response.result.weights # handlers[2].response.result.weights
  /\ handlers[1].response.result.total_score # handlers[2].response.result.total_score
  /\ handlers[1].response.result.date > handlers[2].response.result.date

(***************************************************************************)
(* C24: the batch accounts for every stock.                                *)
(***************************************************************************)
\* the request answered is a batch request that passed the validation of its
\* fields
BatchAnswered == pc = "done" /\ request.stock = "" /\ ValidWeights(request)

\* the response lists every requested stock once, as a result or as an error,
\* its counts add up and its results are in non-increasing total_score order
BatchAccounted ==
  /\ response.status = 200
  /\ response.summary.total_analyzed + response.summary.failed = Len(request.stocks)
  /\ response.count = response.summary.total_analyzed
  /\ response.count = Len(response.results)
  /\ response.summary.failed = Len(response.summary.errors)
  /\ \A i \in 1..Len(response.summary.errors) :
       \E j \in 1..Len(request.stocks) : response.summary.errors[i].stock = request.stocks[j]
  /\ response.summary.buy_signals + response.summary.sell_signals
       + response.summary.neutral_signals = response.summary.total_analyzed
  /\ response.summary.buy_signals >= 0
  /\ response.summary.sell_signals >= 0
  /\ response.summary.neutral_signals >= 0
  /\ \A i, j \in 1..Len(response.results) :
       i < j => FGe(response.results[i].total_score, response.results[j].total_score)

\* the request is refused with 400 and analyze was never called
BatchRefused ==
  /\ response.status = 400
  /\ site = NoSite /\ result = NoResult /\ now = 0
  /\ results = <<>> /\ errors = <<>>

\* C24 as stated: every batch request with 1 to 20 stocks is answered with
\* each stock accounted for exactly once, as a result or as an error
\* (total_analyzed + failed = the number requested, count = total_analyzed),
\* buy + sell + neutral = total_analyzed with none negative, and the results
\* in non-increasing total_score order; a request with no stock or more than
\* 20 is refused with 400 before any stock is analysed.
C24_BatchAccounted ==
  BatchAnswered =>
    IF Len(request.stocks) \in 1..BatchLimit THEN BatchAccounted ELSE BatchRefused

(***************************************************************************)
(* C25: persistence never alters or suppresses an analysis.                *)
(***************************************************************************)
\* /api/analyze has answered a request whose analysis returned a result
AnalysisAnswered == pc = "done" /\ request.stock # "" /\ result.outcome = "ok"

\* C25: a request of /api/analyze whose analysis succeeded is answered 200 with
\* the result analyze returned, unchanged, whatever the store does.  With
\* save_result the save either succeeds (saved true, no save_error, one row
\* stored) or fails (saved false, a non-empty save_error, nothing stored);
\* without save_result nothing is stored and saved and save_error are null.
C25_SaveNeverSuppresses ==
  AnalysisAnswered =>
    /\ response.status = 200
    /\ response.result = result
    /\ IF request.save_result
       THEN \/ /\ response.saved = "True" /\ response.save_error = "None"
               /\ sa_analysis_results = <<AnalysisRow(result)>>
            \/ /\ response.saved = "False"
               /\ response.save_error \notin {"None", ""}
               /\ sa_analysis_results = <<>>
       ELSE /\ response.saved = "None" /\ response.save_error = "None"
            /\ sa_analysis_results = <<>>

C25_Witness ==
  /\ AnalysisAnswered
  /\ request.save_result
  /\ response.status = 200
  /\ response.saved = "False"
  /\ response.save_error = "exception"
  /\ response.result.technical_signals # <<>>
  /\ response.result.recommendation = result.recommendation

(***************************************************************************)
(* C26: the watchlist holds one entry per stock_code.                      *)
(***************************************************************************)
\* the table has an entry for the code
InWatchlist(table, c) == \E i \in 1..Len(table) : table[i].stock_code = c

\* the entries of the table for the code
EntriesOf(table, c) == {table[i] : i \in Eq(table, c)}

\* the step is the operation op, and the handler reports success
Succeeds(op) == request'.op = op /\ response'.status = 200

\* C26: in every step of the watchlist (a failed operation being one the
\* store did not apply), the table keeps at most one entry per stock_code; a
\* successful add of c leaves exactly the entry of the request for c, in the
\* place of the earlier one when there was one (the table does not grow); a
\* successful remove of c leaves none; every other step, and every step on
\* another code, leaves c in or out as it was, so that c is in exactly when
\* the last successful add or remove on c was an add; the check of c, when
\* the store answers, says whether c is in; and the remove of an absent code,
\* when the store answers, reports success and leaves the table as it was.
C26_OneEntryPerCode ==
  [][/\ \A c \in WatchCodes : Cardinality(Eq(sa_watchlist', c)) <= 1
     /\ \A c \in WatchCodes :
          IF Succeeds("add") /\ request'.stock_code = c
          THEN /\ EntriesOf(sa_watchlist', c) = {WatchlistData(request')}
               /\ Len(sa_watchlist') =
                    IF InWatchlist(sa_watchlist, c) THEN Len(sa_watchlist)
                    ELSE Len(sa_watchlist) + 1
          ELSE IF Succeeds("remove") /\ request'.stock_code = c
          THEN ~InWatchlist(sa_watchlist', c)
          ELSE InWatchlist(sa_watchlist', c) = InWatchlist(sa_watchlist, c)
     /\ request'.op = "check" /\ request'.store = "ok" =>
          response'.is_in_watchlist = InWatchlist(sa_watchlist, request'.stock_code)
     /\ request'.op = "remove" /\ request'.store = "ok"
          /\ ~InWatchlist(sa_watchlist, request'.stock_code) =>
          response'.status = 200 /\ sa_watchlist' = sa_watchlist]_vars

\* the last request added a code again: its entry, first in the table, has
\* the fields of the request, and the other code's entry is still behind it
C26_Witness ==
  /\ pc = "watchlist"
  /\ Len(sa_watchlist) = 2
  /\ sa_watchlist[2].stock_code = "000660"
  /\ sa_watchlist[2].memo = "sold"
  /\ request.op = "add" /\ request.stock_code = "005930" /\ response.status = 200
  /\ sa_watchlist[1] = WatchlistData(request)
  /\ sa_watchlist[1].stock_name = "HYNIX"
====
